---- MODULE Spec2Model ----
(***************************************************************************)
(* Model of the sidecar bridge of kotlin-analyzer (server/src/bridge.rs).  *)
(*                                                                         *)
(* The bridge is modelled as the set of tasks that run against its shared  *)
(* state: the callers of request()/notify(), the caller of start(), the    *)
(* caller of shutdown(), and per started sidecar instance the reader task, *)
(* the writer task and the health-check task.  One action is one step of   *)
(* one task between two accesses of shared state (a mutex section, an      *)
(* atomic fetch_add, a channel send, a oneshot receive).                   *)
(*                                                                         *)
(* Smaller specifications over variables of their own stand beside it:    *)
(* ChildSpec (the sidecar child processes and kill_on_drop), OrderSpec     *)
(* (the order of the writer task's writes), ServerSpec (the document       *)
(* handlers and the debounce loop of server.rs), StoreSpec (the            *)
(* DocumentStore of state.rs called directly), ParseSpec                   *)
(* (parse_gradle_output of project.rs on every bounded output) and         *)
(* FrameSpec (read_message of jsonrpc.rs on every bounded stream).         *)
(***************************************************************************)
EXTENDS Naturals, Sequences, FiniteSets

(***************************************************************************)
(* Bounds of the model.                                                    *)
(***************************************************************************)
\* Bridge.request_id hands out ids while it is at most MaxId
MaxId == 3
\* the health task pings while its own counter is at most MaxPingId
MaxPingId == 4
\* capacity of the writer queue explored (mpsc::channel(32) in the source)
QueueCap == 1

\* number of sidecar processes a bridge spawns in the child-process specification
MaxChildren == 4

\* messages each producer sends, and capacity of the channel, in the writer-order
\* specification (mpsc::channel(32) in the source)
MaxIssued == 2
OrderCap == 2

\* document versions, capacity of the debounce channel (64 in the source), the debounce
\* interval in ticks (300 ms in the source) and the cap of the burst count, in the
\* document-session specification
MaxVersion == 2
DebounceCap == 1
DebounceTicks == 2
MaxBurst == 2

\* lines of build-tool output and flags in the Config, in the project specification
MaxLines == 5
MaxConfigFlags == 2

\* header lines before the blank line and bytes after it, in the framing specification
MaxHeaders == 2
MaxBody == 2

\* const MAX_FAILURES: u32 = 3
MAX_FAILURES == 3
\* KotlinLanguageServer::initialized builds the Bridge and calls start() on it once
\* (server.rs line 543); nothing else in the server calls start()
MaxStarts == 1

Callers == {"c1"}
Insts == 1..(MaxStarts + 1)

\* SidecarState
States == {"Starting", "Ready", "Degraded", "Restarting", "Stopped"}

(***************************************************************************)
(* Owners of a oneshot response slot: a caller of request(), start()'s     *)
(* initialize exchange (k = "init"), the health task of instance n.        *)
(***************************************************************************)
CallerOwner(c) == [k |-> c, n |-> 0]
InitOwner == [k |-> "init", n |-> 0]
PingOwner(i) == [k |-> "ping", n |-> i]
ShutdownOwner == [k |-> "shutdown", n |-> 0]
NoOwner == [k |-> "none", n |-> 0]
Owners == {CallerOwner(c) : c \in Callers} \cup {InitOwner} \cup {PingOwner(i) : i \in Insts}

\* Result<Value, Error> values.  For Ok, `who` and `id` identify the request
\* the sidecar produced the result for (the content of the result field).
None == [t |-> "None", e |-> "", who |-> NoOwner, id |-> 0]
Ok(who, id) == [t |-> "Ok", e |-> "", who |-> who, id |-> id]
Err(e) == [t |-> "Err", e |-> e, who |-> NoOwner, id |-> 0]
NotReady == Err("NotReady")
Timeout == Err("Timeout")
SpawnFailed == Err("SpawnFailed")
\* BridgeError::MalformedResponse(String): the variant and the message it carries
MalformedResponse(msg) == Err("MalformedResponse: " \o msg)
Crashed(reason) == Err(reason)
ProcessExited == "Crashed: sidecar process exited"
ShuttingDown == "Crashed: server shutting down"
ReadError == "Crashed: read error"
ChannelClosed == "Crashed: request channel closed"

VARIABLES
    state,        \* Bridge.state, the value behind the state mutex
    watch,        \* the value the watch channel (state_watch_tx) holds
    everSet,      \* the watch channel's version differs from the one of Bridge.state_watch_rx
    unseen,       \* per caller: its cloned watch receiver has an unseen version
    request_id,   \* Bridge.request_id
    pending,      \* Bridge.pending: Vec<PendingRequest>; live = the oneshot receiver still exists
    slot,         \* per owner: the value sent into its current oneshot channel
    cur,          \* instance whose sender Bridge.request_tx holds (0: the closed channel of new())
    queue,        \* per instance: contents of its mpsc channel
    writerAlive,  \* per instance: the writer task (mpsc receiver) exists
    written,      \* per instance: id-bearing messages written to the sidecar, not yet answered
    readerPc,     \* per instance: reader task position
    readerNote,   \* per instance: reader's Notified future of the current select! has fired
    healthPc,     \* per instance: health task position
    healthNote,   \* per instance: health task's Notified future of the current select! has fired
    healthCtr,    \* per instance: request_id_counter of the health task
    healthFail,   \* per instance: consecutive_failures
    callerPc,     \* per caller: position in request()/notify()
    callerOp,     \* per caller: "request" or "notify"
    callerId,     \* per caller: id of the current request
    result,       \* per caller: value returned by its last call
    waited,       \* per caller: its current call went through the wait loop
    startPc,      \* position of start()
    starts,       \* number of start() calls so far; the instance start() is creating
    startId,      \* id of the initialize request
    startResult,  \* value returned by the last start()
    shutPc,       \* position of shutdown()
    shutId,       \* id of the shutdown request
    shutdownDone, \* shutdown() has returned past its Stopped check, and start() was not called since
    preShutdown,  \* callers that were past wait_for_ready when the last shutdown() began
    idsUsed,      \* ids assigned to id-bearing messages so far
    idCount       \* number of id-bearing messages that were assigned an id

\* the variables of the bridge's tasks
taskVars == <<state, watch, everSet, unseen, request_id, pending, slot, cur, queue, writerAlive, written,
              readerPc, readerNote, healthPc, healthNote, healthCtr, healthFail,
              callerPc, callerOp, callerId, result, waited, startPc, starts, startId,
              startResult, shutPc, shutId, shutdownDone, preShutdown, idsUsed, idCount>>

bridgeVars == <<state, watch, everSet, unseen>>
chanVars == <<cur, queue, writerAlive, written>>
readerVars == <<readerPc, readerNote>>
healthVars == <<healthPc, healthNote, healthCtr, healthFail>>
callerVars == <<callerPc, callerOp, callerId, result, waited>>
startVars == <<startPc, starts, startId, startResult>>
shutVars == <<shutPc, shutId, shutdownDone, preShutdown>>
idVars == <<request_id, idsUsed, idCount>>

(***************************************************************************)
(* The sidecar child processes of a bridge (Bridge.child, kill_on_drop).   *)
(***************************************************************************)
VARIABLES
    child,        \* Bridge.child: Option<Child>; 0 is None, n the n-th process spawned
    local,        \* the Child that start() holds in its local variable, 0 when none
    running,      \* the spawned processes that are running
    killed,       \* the processes killed by the drop of their Child handle
    spawned,      \* number of processes spawned so far
    dropped       \* the bridge has been dropped

childVars == <<child, local, running, killed, spawned, dropped>>

ChildInit ==
    /\ child = 0
    /\ local = 0
    /\ running = {}
    /\ killed = {}
    /\ spawned = 0
    /\ dropped = FALSE

(***************************************************************************)
(* The writer task of one sidecar instance and the byte stream it writes   *)
(* to the sidecar's stdin, with the order of the messages kept.            *)
(***************************************************************************)
VARIABLES
    rx,           \* the messages in the mpsc channel of the writer task, oldest first
    rxOpen,       \* the writer task still holds the receiver
    request,      \* the message the writer task holds between recv() and the end of the write
    writerPc,     \* position of the writer task: recv, header, body, flush, done
    stdin,        \* what was written to the sidecar's stdin: a sequence of frame parts
    accepted,     \* the messages in the order in which the channel accepted them
    issued        \* per producer: number of messages it has sent so far

orderVars == <<rx, rxOpen, request, writerPc, stdin, accepted, issued>>

(***************************************************************************)
(* The document session of the language server (server.rs, state.rs): the  *)
(* DocumentStore and the debounce loop that turns change events into       *)
(* analyze cycles.                                                         *)
(***************************************************************************)
VARIABLES
    documents,     \* DocumentStore.documents: per URI the stored Document, or NoDocument
    debounce_rx,   \* the URIs in the channel of the debounce loop, oldest first
    debPending,    \* the loop's `pending: Option<Url>`
    elapsed,       \* time the loop's current sleep has run, in ticks
    loopPc,        \* position of the loop: select, fired (timer branch taken), analyze
    taken,         \* the URI the timer branch took out of `pending`
    bridgeIs,      \* what the loop finds in the server's bridge: NoBridge, or its state
    lastDidChange, \* parameters of the last textDocument/didChange the loop issued
    lastEdit,      \* per URI: text and version of the latest didOpen/didChange of the open document
    burst,         \* change events in a row, for the URI in `pending`, that the loop received
                   \* since its last cycle (capped)
    lastSkipped,   \* URI of a cycle skipped since the last issued cycle ended
    published,     \* the last client.publish_diagnostics call: its caller, URI and list
    replaced       \* the URI that the last received event of another URI overwrote in
                   \* `pending`, while the loop waits with the URI that overwrote it

serverVars == <<documents, debounce_rx, debPending, elapsed, loopPc, taken, bridgeIs,
                lastDidChange, lastEdit, burst, lastSkipped, published, replaced>>

(***************************************************************************)
(* The server's bridge mutex, `bridge: Arc<Mutex<Option<Bridge>>>`, and    *)
(* the handlers that lock it next to the debounce loop (server.rs).        *)
(***************************************************************************)
VARIABLES
    mutex,         \* the task that holds the lock of `bridge`, NoTask when it is free
    handlerPc,     \* per handler: idle, or calling (inside its bridge call, the guard alive)
    notified       \* how bridge.notify(didChange) of the loop's cycle in flight returned:
                   \* "Ok" or "Err", "none" outside a cycle

lockVars == <<mutex, handlerPc, notified>>

(***************************************************************************)
(* The DocumentStore as its callers see it (state.rs): next to `documents` *)
(* it holds the diagnostics cache; `returned` records the last call made   *)
(* on the store directly and the value it gave back.                       *)
(***************************************************************************)
VARIABLES
    diagnostics,   \* DocumentStore.diagnostics: per URI the cached list, or NoDiagnostics
    returned       \* the last call on the store: its name, arguments and return value

storeVars == <<diagnostics, returned>>

(***************************************************************************)
(* Project resolution (project.rs): the stdout of the build tool, the      *)
(* Config, and the ProjectModel that parse_gradle_output makes of them.    *)
(***************************************************************************)
VARIABLES
    output,        \* the build tool's stdout, as its sequence of lines
    config,        \* Config.compiler_flags
    model          \* the ProjectModel parse_gradle_output returned, NoModel before the call

projectVars == <<output, config, model>>

(***************************************************************************)
(* The framing of the sidecar's stdout (jsonrpc.rs): the bytes the stream  *)
(* holds until its end, and what read_message returned for them.           *)
(***************************************************************************)
VARIABLES
    stream,        \* the stream: its header lines, whether the blank line follows, the bytes after it
    message        \* what read_message returned, NotRead before the call

frameVars == <<stream, message>>

(***************************************************************************)
(* The responses of the sidecar as the reader task gets them from          *)
(* read_message (jsonrpc.rs, struct Response).                             *)
(***************************************************************************)
VARIABLES
    received       \* the last Response the reader task has dispatched, NoResponse before the first

dispatchVars == <<received>>

\* the variables the bridge's tasks never touch
extVars == <<childVars, orderVars, serverVars, storeVars, projectVars, frameVars, dispatchVars,
             lockVars>>

\* all variables but those of one component
notChildVars == <<taskVars, orderVars, serverVars, storeVars, projectVars, frameVars, dispatchVars, lockVars>>
notOrderVars == <<taskVars, childVars, serverVars, storeVars, projectVars, frameVars, dispatchVars, lockVars>>
notServerVars == <<taskVars, childVars, orderVars, storeVars, projectVars, frameVars, dispatchVars, lockVars>>
notProjectVars == <<taskVars, childVars, orderVars, serverVars, storeVars, frameVars, dispatchVars, lockVars>>
notFrameVars == <<taskVars, childVars, orderVars, serverVars, storeVars, projectVars, dispatchVars, lockVars>>
\* all variables but those of the server and the lock of its bridge
notLockVars == <<taskVars, childVars, orderVars, storeVars, projectVars, frameVars, dispatchVars>>
notDispatchVars == <<childVars, orderVars, serverVars, storeVars, projectVars, frameVars, lockVars>>
\* what a call on the DocumentStore leaves alone
notStoreVars == <<taskVars, childVars, orderVars, projectVars, frameVars, dispatchVars, lockVars, debounce_rx, debPending, elapsed, loopPc,
                  taken, bridgeIs, lastDidChange, lastEdit, burst, lastSkipped, published, replaced>>

vars == <<taskVars, extVars>>

\* the tasks that send on the channel: the debounce loop's analyze cycle, the health task
Producers == {"analyze", "health"}
NoRequest == [p |-> "none", n |-> 0]

Uris == {"u1", "u2"}
Texts == {"a", "b"}
Versions == 1..MaxVersion
NoDocument == [text |-> "", version |-> 0]
Document(text, version) == [text |-> text, version |-> version]
NoUri == "none"
NoBridge == "NoBridge"

\* Vec<Diagnostic> values: the empty list and a list with one diagnostic
Diags == {<<>>, <<"e1">>}
\* Option<&Vec<Diagnostic>>
NoDiagnostics == [some |-> FALSE, list |-> <<>>]
Some(diags) == [some |-> TRUE, list |-> diags]
NoPublish == [by |-> "none", uri |-> NoUri, diagnostics |-> <<>>]
Publish(by, uri, diags) == [by |-> by, uri |-> uri, diagnostics |-> diags]
NoCall == [op |-> "none", uri |-> NoUri, doc |-> NoDocument, diags |-> NoDiagnostics,
           value |-> FALSE]
Call(op, uri, doc, diags, value) ==
    [op |-> op, uri |-> uri, doc |-> doc, diags |-> diags, value |-> value]

\* the handlers that call the bridge under its mutex, next to the debounce loop ("loop")
Handlers == {"hover", "did_open", "shutdown"}
NoTask == "none"

\* KotlinLanguageServer::new: the mutex is free, no handler runs
LockInit ==
    /\ mutex = NoTask
    /\ handlerPc = [h \in Handlers |-> "idle"]
    /\ notified = "none"

\* KotlinLanguageServer::new and start_debounce_loop: no document, empty channel
ServerInit ==
    /\ documents = [u \in Uris |-> NoDocument]
    /\ debounce_rx = <<>>
    /\ debPending = NoUri
    /\ elapsed = 0
    /\ loopPc = "select"
    /\ taken = NoUri
    /\ bridgeIs = NoBridge
    /\ lastDidChange = [uri |-> NoUri, doc |-> NoDocument]
    /\ lastEdit = [u \in Uris |-> NoDocument]
    /\ burst = 0
    /\ lastSkipped = NoUri
    /\ published = NoPublish
    /\ replaced = NoUri

\* DocumentStore::default: both maps empty
StoreInit ==
    /\ diagnostics = [u \in Uris |-> NoDiagnostics]
    /\ returned = NoCall

\* sequences over S of length at most n
Seqs(S, n) == UNION {[1..k -> S] : k \in 0..n}

\* a line of the build tool's stdout: surrounded by whitespace or not, the tag it starts
\* with ("" when it starts with none the parser knows), and the rest of the line
Line(pad, key, value) == [pad |-> pad, key |-> key, value |-> value]
START == Line(FALSE, "---KOTLIN-ANALYZER-START---", "")
END == Line(FALSE, "---KOTLIN-ANALYZER-END---", "")
Lines ==
    {START, END, Line(TRUE, "---KOTLIN-ANALYZER-START---", ""),
     Line(FALSE, "SOURCE_ROOT=", "x"), Line(FALSE, "SOURCE_ROOT=", "y"),
     Line(FALSE, "CLASSPATH=", "x"), Line(FALSE, "GENERATED_SOURCE_ROOT=", "x"),
     Line(FALSE, "COMPILER_FLAG=", "f1"), Line(FALSE, "", "BUILD SUCCESSFUL")}
Flags == {"f1", "f2"}
Outputs == Seqs(Lines, MaxLines)
Configs == Seqs(Flags, MaxConfigFlags)

\* the ProjectModel as parse_gradle_output creates it (lines 259-269), and no model yet
EmptyModel ==
    [parsed |-> TRUE, source_roots |-> <<>>, classpath |-> <<>>, compiler_flags |-> <<>>,
     generated_source_roots |-> <<>>]
NoModel == [EmptyModel EXCEPT !.parsed = FALSE]

\* no build tool has run
ProjectInit ==
    /\ output = <<>>
    /\ config = <<>>
    /\ model = NoModel

\* a header line of a frame: its name and, for Content-Length, whether the value parses
\* as usize and the number it gives
Header(name, valid, n) == [name |-> name, valid |-> valid, n |-> n]
Headers ==
    {Header("Content-Length: ", TRUE, n) : n \in 0..MaxBody}
        \cup {Header("Content-Length: ", FALSE, 0), Header("Content-Type: ", TRUE, 0)}
\* body bytes: "j" is a byte of a well-formed message, "x" is not
Bytes == {"j", "x"}
Stream(headers, blank, body) == [headers |-> headers, blank |-> blank, body |-> body]
\* a stream ends in its headers, or holds the blank line and then some bytes
Streams ==
    {Stream(h, FALSE, <<>>) : h \in Seqs(Headers, MaxHeaders)}
        \cup {Stream(h, TRUE, b) : h \in Seqs(Headers, MaxHeaders), b \in Seqs(Bytes, MaxBody)}

\* what read_message returns: Ok(Some(response)), Ok(None), or Err(e)
Returned(t) == [t |-> t]
NotRead == Returned("NotRead")

\* the sidecar has written nothing and its stdout has ended
FrameInit ==
    /\ stream = Stream(<<>>, FALSE, <<>>)
    /\ message = NotRead

\* Option<ResponseError>: the code, as Display prints the i32, and the message
NoError == [some |-> FALSE, code |-> "", message |-> ""]
ResponseError(code, msg) == [some |-> TRUE, code |-> code, message |-> msg]
\* Option<Value> of the result field (a JSON null deserializes to None): the content the
\* sidecar produced for the request `id` of `who`
NoResult == [some |-> FALSE, who |-> NoOwner, id |-> 0]
Value(who, id) == [some |-> TRUE, who |-> who, id |-> id]
\* Value::Null
Null == Value(NoOwner, 0)
NoResponse == [id |-> 0, error |-> NoError, result |-> NoResult, read |-> FALSE]

\* the error objects and results of the responses explored
Codes == {"-1", "7"}
Messages == {"m"}
ResponseErrors == {ResponseError(c, m) : c \in Codes, m \in Messages}
Results(id) == {Value(o, id) : o \in Owners}

\* the reader task has read nothing
DispatchInit == received = NoResponse

\* the channel and the writer task as start() creates them (lines 310-330)
OrderInit ==
    /\ rx = <<>>
    /\ rxOpen = TRUE
    /\ request = NoRequest
    /\ writerPc = "recv"
    /\ stdin = <<>>
    /\ accepted = <<>>
    /\ issued = [p \in Producers |-> 0]

\* Bridge::new
BridgeInit ==
    /\ state = "Stopped"
    /\ watch = "Stopped"
    /\ everSet = FALSE
    /\ unseen = [c \in Callers |-> FALSE]
    /\ request_id = 1
    /\ pending = <<>>
    /\ slot = [o \in Owners |-> None]
    /\ cur = 0
    /\ queue = [i \in Insts |-> <<>>]
    /\ writerAlive = [i \in Insts |-> FALSE]
    /\ written = [i \in Insts |-> {}]
    /\ readerPc = [i \in Insts |-> "none"]
    /\ readerNote = [i \in Insts |-> FALSE]
    /\ healthPc = [i \in Insts |-> "none"]
    /\ healthNote = [i \in Insts |-> FALSE]
    /\ healthCtr = [i \in Insts |-> 0]
    /\ healthFail = [i \in Insts |-> 0]
    /\ callerPc = [c \in Callers |-> "idle"]
    /\ callerOp = [c \in Callers |-> "none"]
    /\ callerId = [c \in Callers |-> 0]
    /\ result = [c \in Callers |-> None]
    /\ waited = [c \in Callers |-> FALSE]
    /\ startPc = "idle"
    /\ starts = 0
    /\ startId = 0
    /\ startResult = None
    /\ shutPc = "idle"
    /\ shutId = 0
    /\ shutdownDone = FALSE
    /\ preShutdown = {}
    /\ idsUsed = {}
    /\ idCount = 0

\* the server after construction: nothing resolved, nothing read
Init ==
    /\ BridgeInit
    /\ ChildInit
    /\ OrderInit
    /\ ServerInit
    /\ StoreInit
    /\ ProjectInit
    /\ FrameInit
    /\ DispatchInit
    /\ LockInit

(***************************************************************************)
(* Helpers shared by the tasks.                                            *)
(***************************************************************************)
\* a set_state that leaves the watch channel alone
set_state_skips_watch(new_state) ==
    /\ state' = new_state
    /\ UNCHANGED watch
    /\ everSet' = TRUE
    /\ unseen' = [c \in Callers |-> callerPc[c] = "waiting"]

\* Bridge::set_state: with the state mutex locked, stores the state and sends it on the
\* watch channel (every watch receiver now has an unseen version); one step, since no
\* task reads Bridge.state without that mutex (lines 95-99)
set_state(new_state) ==
    /\ state' = new_state
    /\ watch' = new_state
    /\ everSet' = TRUE
    /\ unseen' = [c \in Callers |-> callerPc[c] = "waiting"]

\* ids the operations already begun will still take from Bridge.request_id
InFlight ==
    Cardinality({c \in Callers : callerOp[c] = "request" /\ callerPc[c] \in {"waiting", "admitted"}})
    + (IF startPc \in {"spawn", "register"} THEN 1 ELSE 0)
    + (IF shutPc \in {"cancel", "nextid"} THEN 1 ELSE 0)

\* an operation that needs an id is begun only while the explored id range has room for it
IdBudget == request_id + InFlight <= MaxId

\* Bridge::next_id: fetch_add(1); the id handed out is the unprimed request_id
next_id ==
    /\ request_id' = request_id + 1
    /\ idsUsed' = idsUsed \cup {request_id}
    /\ idCount' = idCount + 1

\* pending.push(PendingRequest { id, response_tx })
Push(p, id, owner) == Append(p, [id |-> id, owner |-> owner, live |-> TRUE])

\* the oneshot receiver of `owner` is dropped: its sender stays in the pending Vec
DropReceiver(p, owner) ==
    [k \in 1..Len(p) |-> IF p[k].owner = owner THEN [p[k] EXCEPT !.live = FALSE] ELSE p[k]]

RemoveAt(p, pos) == [k \in 1..(Len(p) - 1) |-> IF k < pos THEN p[k] ELSE p[k + 1]]

\* pending.iter().position(|p| p.id == id); 0 when there is none
Position(p, id) ==
    IF \E k \in 1..Len(p) : p[k].id = id
    THEN CHOOSE k \in 1..Len(p) : p[k].id = id /\ \A j \in 1..(k - 1) : p[j].id # id
    ELSE 0

\* owners whose live oneshot sender is in the pending Vec
LiveOwners(p) == {p[k].owner : k \in {j \in 1..Len(p) : p[j].live}}

\* of the messages the sidecar has read, those whose answer finds a pending entry; the
\* answer to any other id is dropped by dispatch_response (lines 561-563) and not tracked
Awaited(w, p) == [i \in Insts |-> {m \in w[i] : \E k \in 1..Len(p) : p[k].id = m.id}]

\* cancel_all_pending that empties the Vec without sending anything to the waiters
cancel_all_pending_silent(reason) ==
    /\ pending' = <<>>
    /\ slot' = slot

\* Bridge::cancel_all_pending: drain the Vec under one lock, send Crashed(reason) to each
cancel_all_pending(reason) ==
    /\ pending' = <<>>
    /\ slot' = [o \in Owners |-> IF o \in LiveOwners(pending) THEN Crashed(reason) ELSE slot[o]]

\* format!("error {}: {}", error.code, error.message)
format(error) == "error " \o error.code \o ": " \o error.message

\* Option::unwrap_or
unwrap_or(option, default) == IF option.some THEN option ELSE default

\* a conversion that gives Ok whenever the response carries a result
response_result_prefers_result(response) ==
    IF response.result.some
    THEN Ok(response.result.who, response.result.id)
    ELSE IF response.error.some THEN MalformedResponse(format(response.error))
    ELSE Ok(Null.who, Null.id)

\* dispatch_response, the value sent to the waiter (lines 551-560)
response_result(response) ==
    IF response.error.some
    THEN MalformedResponse(format(response.error))
    ELSE LET value == unwrap_or(response.result, Null) IN Ok(value.who, value.id)

\* a dispatch that hands the result over and leaves the entry in the Vec
dispatch_response_keeps(response) ==
    LET pos == Position(pending, response.id) IN
    IF response.id = 0 \/ pos = 0
    THEN UNCHANGED <<pending, slot>>
    ELSE /\ pending' = pending
         /\ slot' = IF pending[pos].live
                    THEN [slot EXCEPT ![pending[pos].owner] =
                              response_result(response)]
                    ELSE slot

\* Bridge::dispatch_response.  response.id = 0 stands for a message without id.
dispatch_response(response) ==
    LET pos == Position(pending, response.id) IN
    IF response.id = 0 \/ pos = 0
    THEN UNCHANGED <<pending, slot>>
    ELSE /\ pending' = RemoveAt(pending, pos)
         /\ slot' = IF pending[pos].live
                    THEN [slot EXCEPT ![pending[pos].owner] =
                              response_result(response)]
                    ELSE slot

\* mpsc Sender::send on the channel of instance i: closed when its receiver is gone
Closed(i) == IF i = 0 THEN TRUE ELSE ~writerAlive[i]
HasRoom(i) == IF i = 0 THEN FALSE ELSE writerAlive[i] /\ Len(queue[i]) < QueueCap
Enqueue(i, msg) == queue' = [queue EXCEPT ![i] = Append(@, msg)]
Msg(id, owner) == [id |-> id, owner |-> owner]

(***************************************************************************)
(* request() and notify()                                                  *)
(***************************************************************************)
\* a call returns: its value is recorded and the caller is idle again
Return(c, v) ==
    /\ callerPc' = [callerPc EXCEPT ![c] = "idle"]
    /\ result' = [result EXCEPT ![c] = v]
    /\ waited' = [waited EXCEPT ![c] = FALSE]
    /\ preShutdown' = preShutdown \ {c}
    /\ UNCHANGED <<shutPc, shutId, shutdownDone>>

\* wait_for_ready whose first check fails fast on Degraded only and waits on Stopped
wait_for_ready_check_waits(c, op) ==
    /\ callerPc[c] = "idle"
    /\ op = "request" => IdBudget
    /\ callerOp' = [callerOp EXCEPT ![c] = op]
    /\ callerId' = [callerId EXCEPT ![c] = 0]
    /\ CASE watch = "Ready" ->
                /\ callerPc' = [callerPc EXCEPT ![c] = "admitted"]
                /\ result' = [result EXCEPT ![c] = None]
                /\ UNCHANGED <<unseen, waited, shutVars>>
         [] watch = "Degraded" ->
                /\ Return(c, NotReady)
                /\ UNCHANGED unseen
         [] OTHER ->
                /\ callerPc' = [callerPc EXCEPT ![c] = "waiting"]
                /\ result' = [result EXCEPT ![c] = None]
                /\ waited' = [waited EXCEPT ![c] = TRUE]
                /\ unseen' = [unseen EXCEPT ![c] = everSet]
                /\ UNCHANGED shutVars
    /\ UNCHANGED <<state, watch, everSet, idVars, pending, slot, chanVars, readerVars, healthVars,
                   startVars>>
    /\ UNCHANGED extVars

\* wait_for_ready, "Check current state first" (lines 403-418), on entry of the call
wait_for_ready_check(c, op) ==
    /\ callerPc[c] = "idle"
    /\ op = "request" => IdBudget
    /\ callerOp' = [callerOp EXCEPT ![c] = op]
    /\ callerId' = [callerId EXCEPT ![c] = 0]
    /\ CASE watch = "Ready" ->
                /\ callerPc' = [callerPc EXCEPT ![c] = "admitted"]
                /\ result' = [result EXCEPT ![c] = None]
                /\ UNCHANGED <<unseen, waited, shutVars>>
         [] watch \in {"Stopped", "Degraded"} ->
                /\ Return(c, NotReady)
                /\ UNCHANGED unseen
         [] OTHER ->
                /\ callerPc' = [callerPc EXCEPT ![c] = "waiting"]
                /\ result' = [result EXCEPT ![c] = None]
                /\ waited' = [waited EXCEPT ![c] = TRUE]
                /\ unseen' = [unseen EXCEPT ![c] = everSet]
                /\ UNCHANGED shutVars
    /\ UNCHANGED <<state, watch, everSet, idVars, pending, slot, chanVars, readerVars, healthVars,
                   startVars>>
    /\ UNCHANGED extVars

RequestBegin(c) == wait_for_ready_check(c, "request")
NotifyBegin(c) == wait_for_ready_check(c, "notify")

\* wait loop that treats every state but Ready as a failure
wait_for_ready_changed_gives_up(c) ==
    /\ callerPc[c] = "waiting"
    /\ unseen[c]
    /\ unseen' = [unseen EXCEPT ![c] = FALSE]
    /\ CASE watch = "Ready" ->
                /\ callerPc' = [callerPc EXCEPT ![c] = "admitted"]
                /\ UNCHANGED <<result, waited, shutVars>>
         [] watch \in {"Stopped", "Degraded"} ->
                Return(c, NotReady)
         [] OTHER ->
                Return(c, NotReady)
    /\ UNCHANGED <<state, watch, everSet, idVars, pending, slot, chanVars, readerVars, healthVars,
                   callerOp, callerId, startVars>>
    /\ UNCHANGED extVars

\* wait_for_ready, one iteration of the loop: rx.changed() then *rx.borrow() (lines 422-439)
wait_for_ready_changed(c) ==
    /\ callerPc[c] = "waiting"
    /\ unseen[c]
    /\ unseen' = [unseen EXCEPT ![c] = FALSE]
    /\ CASE watch = "Ready" ->
                /\ callerPc' = [callerPc EXCEPT ![c] = "admitted"]
                /\ UNCHANGED <<result, waited, shutVars>>
         [] watch \in {"Stopped", "Degraded"} ->
                Return(c, NotReady)
         [] OTHER ->
                UNCHANGED <<callerPc, result, waited, shutVars>>
    /\ UNCHANGED <<state, watch, everSet, idVars, pending, slot, chanVars, readerVars, healthVars,
                   callerOp, callerId, startVars>>
    /\ UNCHANGED extVars

\* wait_for_ready: the timeout around the loop expires (lines 444-447)
wait_for_ready_timeout(c) ==
    /\ callerPc[c] = "waiting"
    /\ unseen' = [unseen EXCEPT ![c] = FALSE]
    /\ Return(c, Timeout)
    /\ UNCHANGED <<state, watch, everSet, idVars, pending, slot, chanVars, readerVars, healthVars,
                   callerOp, callerId, startVars>>
    /\ UNCHANGED extVars

\* a request() that hands its message to the writer queue before it pushes the entry
RequestRegister_sends_first(c) ==
    /\ callerPc[c] = "admitted"
    /\ callerOp[c] = "request"
    /\ HasRoom(cur)
    /\ next_id
    /\ callerId' = [callerId EXCEPT ![c] = request_id]
    /\ Enqueue(cur, Msg(request_id, CallerOwner(c)))
    /\ callerPc' = [callerPc EXCEPT ![c] = "registering"]
    /\ UNCHANGED <<bridgeVars, pending, slot, cur, writerAlive, written, readerVars,
                   healthVars, callerOp, waited, result, startVars, shutVars>>
    /\ UNCHANGED extVars

\* request(): next_id and the push of the pending entry (lines 460-467)
RequestRegister(c) ==
    /\ callerPc[c] = "admitted"
    /\ callerOp[c] = "request"
    /\ next_id
    /\ callerId' = [callerId EXCEPT ![c] = request_id]
    /\ pending' = Push(pending, request_id, CallerOwner(c))
    /\ callerPc' = [callerPc EXCEPT ![c] = "sending"]
    /\ UNCHANGED <<bridgeVars, slot, chanVars, readerVars, healthVars, callerOp, waited, result,
                   startVars, shutVars>>
    /\ UNCHANGED extVars

\* request(): self.request_tx.lock().await.send(request).await (lines 469-474)
RequestSend(c) ==
    /\ callerPc[c] = "sending"
    /\ callerOp[c] = "request"
    /\ \/ /\ HasRoom(cur)
          /\ Enqueue(cur, Msg(callerId[c], CallerOwner(c)))
          /\ callerPc' = [callerPc EXCEPT ![c] = "awaiting"]
          /\ UNCHANGED <<pending, slot, result, waited, shutVars>>
       \/ /\ Closed(cur)
          /\ pending' = DropReceiver(pending, CallerOwner(c))
          /\ slot' = [slot EXCEPT ![CallerOwner(c)] = None]
          /\ Return(c, Crashed(ChannelClosed))
          /\ UNCHANGED queue
    /\ UNCHANGED <<bridgeVars, idVars, cur, writerAlive, written, readerVars, healthVars,
                   callerOp, callerId, startVars>>
    /\ UNCHANGED extVars

\* request(): the oneshot delivers within the 60 s (lines 476-477)
RequestReceive(c) ==
    /\ callerPc[c] = "awaiting"
    /\ slot[CallerOwner(c)] # None
    /\ slot' = [slot EXCEPT ![CallerOwner(c)] = None]
    /\ Return(c, slot[CallerOwner(c)])
    /\ UNCHANGED <<bridgeVars, idVars, pending, chanVars, readerVars, healthVars, callerOp,
                   callerId, startVars>>
    /\ UNCHANGED extVars

\* request(): the 60 s elapse; response_rx is dropped, the Vec keeps the entry (line 479)
RequestTimeout(c) ==
    /\ callerPc[c] = "awaiting"
    /\ slot[CallerOwner(c)] = None
    /\ pending' = DropReceiver(pending, CallerOwner(c))
    /\ Return(c, Timeout)
    /\ UNCHANGED <<bridgeVars, idVars, slot, chanVars, readerVars, healthVars, callerOp,
                   callerId, startVars>>
    /\ UNCHANGED extVars

\* notify(): send of the notification, which has no id (lines 489-496)
NotifySend(c) ==
    /\ callerPc[c] = "admitted"
    /\ callerOp[c] = "notify"
    /\ \/ /\ HasRoom(cur)
          /\ Enqueue(cur, Msg(0, CallerOwner(c)))
          /\ Return(c, Ok(NoOwner, 0))
       \/ /\ Closed(cur)
          /\ Return(c, Crashed(ChannelClosed))
          /\ UNCHANGED queue
    /\ UNCHANGED <<bridgeVars, idVars, pending, slot, cur, writerAlive, written, readerVars,
                   healthVars, callerOp, callerId, startVars>>
    /\ UNCHANGED extVars

(***************************************************************************)
(* start()                                                                 *)
(***************************************************************************)
StartReturn(v) ==
    /\ startPc' = "idle"
    /\ startResult' = v

\* start(): set_state(Starting) (lines 213-216)
StartCall(limit) ==
    /\ startPc = "idle"
    /\ shutPc = "idle"
    /\ starts < limit
    /\ IdBudget
    /\ set_state("Starting")
    /\ startPc' = "spawn"
    /\ starts' = starts + 1
    /\ startResult' = None
    /\ shutdownDone' = FALSE
    /\ UNCHANGED <<idVars, pending, slot, chanVars, readerVars, healthVars, callerVars, startId,
                   shutPc, shutId, preShutdown>>
    /\ UNCHANGED extVars

\* start() as the server calls it: once (server.rs lines 543-558)
StartBegin == StartCall(MaxStarts)

\* start() called on a bridge that was started before: nothing in start() looks at the
\* state or at the tasks of the earlier instance
StartAgain == StartCall(MaxStarts + 1)

\* start(): spawn() or the capture of stdin/stdout fails (lines 221-245)
StartSpawnFailed ==
    /\ startPc = "spawn"
    /\ StartReturn(SpawnFailed)
    /\ UNCHANGED <<bridgeVars, idVars, pending, slot, chanVars, readerVars, healthVars,
                   callerVars, starts, startId, shutVars>>
    /\ UNCHANGED extVars

\* start(): the child is stored, the reader and writer tasks are spawned and the new
\* sender is swapped into Bridge.request_tx (lines 250-330)
StartSpawn ==
    /\ startPc = "spawn"
    /\ cur' = starts
    /\ writerAlive' = [writerAlive EXCEPT ![starts] = TRUE]
    /\ readerPc' = [readerPc EXCEPT ![starts] = "select"]
    /\ startPc' = "register"
    /\ UNCHANGED <<bridgeVars, idVars, pending, slot, queue, written, readerNote, healthVars,
                   callerVars, starts, startId, startResult, shutVars>>
    /\ UNCHANGED extVars

\* start(): next_id and the push of the initialize entry (lines 341-350)
StartRegister ==
    /\ startPc = "register"
    /\ next_id
    /\ startId' = request_id
    /\ pending' = Push(pending, request_id, InitOwner)
    /\ startPc' = "sending"
    /\ UNCHANGED <<bridgeVars, slot, chanVars, readerVars, healthVars, callerVars, starts,
                   startResult, shutVars>>
    /\ UNCHANGED extVars

\* start(): tx.send(request) on the channel just created (lines 352-354)
StartSend ==
    /\ startPc = "sending"
    /\ \/ /\ HasRoom(starts)
          /\ Enqueue(starts, Msg(startId, InitOwner))
          /\ startPc' = "awaiting"
          /\ UNCHANGED <<pending, slot, startResult>>
       \/ /\ Closed(starts)
          /\ pending' = DropReceiver(pending, InitOwner)
          /\ slot' = [slot EXCEPT ![InitOwner] = None]
          /\ StartReturn(Crashed(ChannelClosed))
          /\ UNCHANGED queue
    /\ UNCHANGED <<bridgeVars, idVars, cur, writerAlive, written, readerVars, healthVars,
                   callerVars, starts, startId, shutVars>>
    /\ UNCHANGED extVars

\* start_health_check: the task gets its own counter, loaded from request_id (lines 111-112)
start_health_check(i) ==
    /\ healthPc' = [healthPc EXCEPT ![i] = "sleep"]
    /\ healthCtr' = [healthCtr EXCEPT ![i] = request_id]
    /\ healthFail' = [healthFail EXCEPT ![i] = 0]
    /\ healthNote' = [healthNote EXCEPT ![i] = FALSE]

\* start(): initialize answered with a result: Ready, health check started (lines 359-378)
StartInitOk ==
    /\ startPc = "awaiting"
    /\ slot[InitOwner].t = "Ok"
    /\ slot' = [slot EXCEPT ![InitOwner] = None]
    /\ set_state("Ready")
    /\ start_health_check(starts)
    /\ StartReturn(Ok(NoOwner, 0))
    /\ UNCHANGED <<idVars, pending, chanVars, readerVars, callerVars, starts, startId, shutVars>>
    /\ UNCHANGED extVars

\* start(): initialize answered with an error, also a cancellation (lines 379-383)
StartInitErr ==
    /\ startPc = "awaiting"
    /\ slot[InitOwner].t = "Err"
    /\ slot' = [slot EXCEPT ![InitOwner] = None]
    /\ set_state("Stopped")
    /\ StartReturn(slot[InitOwner])
    /\ UNCHANGED <<idVars, pending, chanVars, readerVars, healthVars, callerVars, starts,
                   startId, shutVars>>
    /\ UNCHANGED extVars

\* start() that returns Timeout without leaving Starting
StartInitTimeout_keeps_state ==
    /\ startPc = "awaiting"
    /\ slot[InitOwner] = None
    /\ pending' = DropReceiver(pending, InitOwner)
    /\ StartReturn(Timeout)
    /\ UNCHANGED <<bridgeVars, idVars, slot, chanVars, readerVars, healthVars, callerVars, starts,
                   startId, shutVars>>
    /\ UNCHANGED extVars

\* start(): no initialize response within 30 s (lines 389-393)
StartInitTimeout ==
    /\ startPc = "awaiting"
    /\ slot[InitOwner] = None
    /\ pending' = DropReceiver(pending, InitOwner)
    /\ set_state("Stopped")
    /\ StartReturn(Timeout)
    /\ UNCHANGED <<idVars, slot, chanVars, readerVars, healthVars, callerVars, starts, startId,
                   shutVars>>
    /\ UNCHANGED extVars

\* a shutdown() without the check for Stopped
ShutdownBegin_unchecked ==
    /\ shutPc = "idle"
    /\ startPc = "idle"
    /\ IdBudget
    /\ shutPc' = "cancel"
    /\ shutdownDone' = FALSE
    /\ preShutdown' = {c \in Callers : callerOp[c] = "request"
                           /\ callerPc[c] \in {"admitted", "sending", "awaiting"}}
    /\ UNCHANGED shutId
    /\ UNCHANGED <<bridgeVars, idVars, pending, slot, chanVars, readerVars, healthVars,
                   callerVars, startVars>>
    /\ UNCHANGED extVars

(***************************************************************************)
(* shutdown()                                                              *)
(***************************************************************************)
\* shutdown(): the state is read; Stopped returns at once (lines 501-504)
ShutdownBegin ==
    /\ shutPc = "idle"
    /\ startPc = "idle"
    /\ IF state = "Stopped"
       THEN /\ shutdownDone' = TRUE
            /\ UNCHANGED <<shutPc, shutId, preShutdown>>
       ELSE /\ IdBudget
            /\ shutPc' = "cancel"
            /\ shutdownDone' = FALSE
            /\ preShutdown' = {c \in Callers : callerOp[c] = "request"
                                   /\ callerPc[c] \in {"admitted", "sending", "awaiting"}}
            /\ UNCHANGED shutId
    /\ UNCHANGED <<bridgeVars, idVars, pending, slot, chanVars, readerVars, healthVars,
                   callerVars, startVars>>
    /\ UNCHANGED extVars

\* notify_waiters(): only a task that is waiting in its select! is woken
Notified(pc, note) == [i \in Insts |-> note[i] \/ pc[i] = "select"]

\* shutdown(): both notifiers fire, then cancel_all_pending (lines 507-511)
ShutdownCancel ==
    /\ shutPc = "cancel"
    /\ readerNote' = Notified(readerPc, readerNote)
    /\ healthNote' = Notified(healthPc, healthNote)
    /\ cancel_all_pending(ShuttingDown)
    /\ written' = Awaited(written, pending')
    /\ shutPc' = "nextid"
    /\ UNCHANGED <<bridgeVars, idVars, cur, queue, writerAlive, readerPc, healthPc, healthCtr, healthFail,
                   callerVars, startVars, shutId, shutdownDone, preShutdown>>
    /\ UNCHANGED extVars

\* shutdown(): Request::new(self.next_id(), "shutdown", None) (line 518)
ShutdownNextId ==
    /\ shutPc = "nextid"
    /\ next_id
    /\ shutId' = request_id
    /\ shutPc' = "sending"
    /\ UNCHANGED <<bridgeVars, pending, slot, chanVars, readerVars, healthVars, callerVars,
                   startVars, shutdownDone, preShutdown>>
    /\ UNCHANGED extVars

\* shutdown(): the send of the shutdown request, its failure ignored (lines 514-519)
ShutdownSend ==
    /\ shutPc = "sending"
    /\ \/ /\ HasRoom(cur)
          /\ Enqueue(cur, Msg(shutId, ShutdownOwner))
       \/ /\ Closed(cur)
          /\ UNCHANGED queue
    /\ shutPc' = "set"
    /\ UNCHANGED <<bridgeVars, idVars, pending, slot, cur, writerAlive, written, readerVars,
                   healthVars, callerVars, startVars, shutId, shutdownDone, preShutdown>>
    /\ UNCHANGED extVars

\* shutdown(): set_state(Stopped) and return (lines 521-523)
ShutdownSet ==
    /\ shutPc = "set"
    /\ set_state("Stopped")
    /\ shutPc' = "idle"
    /\ shutdownDone' = TRUE
    /\ UNCHANGED <<idVars, pending, slot, chanVars, readerVars, healthVars, callerVars,
                   startVars, shutId, preShutdown>>
    /\ UNCHANGED extVars

(***************************************************************************)
(* The writer task of instance i (lines 322-330) and the sidecar's stdin   *)
(***************************************************************************)
\* rx.recv() and write_message succeed: the sidecar has read the frame
WriterWrite(i) ==
    /\ writerAlive[i]
    /\ queue[i] # <<>>
    /\ queue' = [queue EXCEPT ![i] = Tail(@)]
    /\ written' = Awaited([written EXCEPT ![i] =
                               IF readerPc[i] = "select" THEN @ \cup {Head(queue[i])} ELSE @],
                           pending)
    /\ UNCHANGED <<bridgeVars, idVars, pending, slot, cur, writerAlive, readerVars, healthVars,
                   callerVars, startVars, shutVars>>
    /\ UNCHANGED extVars

\* write_message fails: the task breaks and its receiver is dropped
WriterFail(i) ==
    /\ writerAlive[i]
    /\ queue[i] # <<>>
    /\ writerAlive' = [writerAlive EXCEPT ![i] = FALSE]
    /\ queue' = [queue EXCEPT ![i] = <<>>]
    /\ UNCHANGED <<bridgeVars, idVars, pending, slot, cur, written, readerVars, healthVars,
                   callerVars, startVars, shutVars>>
    /\ UNCHANGED extVars

(***************************************************************************)
(* The reader task of instance i (lines 274-308)                           *)
(***************************************************************************)
\* what the sidecar may answer to a message it has read
Response(m, err) ==
    [id |-> m.id,
     error |-> IF err THEN ResponseError("7", "m") ELSE NoError,
     result |-> IF err THEN NoResult ELSE Value(m.owner, m.id)]
NoIdMessage == [id |-> 0, error |-> NoError, result |-> NoResult]
UnknownIdMessage(id) == [id |-> id, error |-> NoError, result |-> NoResult]

\* read_message returns Ok(Some(response)): dispatch_response (lines 281-284)
ReaderMessage(i) ==
    /\ readerPc[i] = "select"
    /\ \/ \E m \in written[i], err \in BOOLEAN :
              /\ dispatch_response(Response(m, err))
              /\ written' = Awaited([written EXCEPT ![i] = @ \ {m}], pending')
       \/ /\ dispatch_response(NoIdMessage)
          /\ UNCHANGED written
       \/ \E id \in idsUsed :
              /\ Position(pending, id) = 0
              /\ dispatch_response(UnknownIdMessage(id))
              /\ UNCHANGED written
    /\ readerNote' = [readerNote EXCEPT ![i] = FALSE]
    /\ UNCHANGED <<bridgeVars, idVars, cur, queue, writerAlive, readerPc, healthVars,
                   callerVars, startVars, shutVars>>
    /\ UNCHANGED extVars

\* read_message returns Ok(None): cancel_all_pending (lines 285-288)
ReaderEof(i) ==
    /\ readerPc[i] = "select"
    /\ cancel_all_pending(ProcessExited)
    /\ readerPc' = [readerPc EXCEPT ![i] = "eof_state"]
    /\ readerNote' = [readerNote EXCEPT ![i] = FALSE]
    /\ written' = Awaited([written EXCEPT ![i] = {}], pending')
    /\ UNCHANGED <<bridgeVars, idVars, cur, queue, writerAlive, healthVars, callerVars,
                   startVars, shutVars>>
    /\ UNCHANGED extVars

\* EOF branch: let current = *state.lock().await (lines 289-290)
ReaderEofState(i) ==
    /\ readerPc[i] = "eof_state"
    /\ readerPc' = [readerPc EXCEPT ![i] = IF state # "Stopped" THEN "eof_set" ELSE "done"]
    /\ UNCHANGED <<bridgeVars, idVars, pending, slot, chanVars, readerNote, healthVars,
                   callerVars, startVars, shutVars>>
    /\ UNCHANGED extVars

\* an EOF branch that announces a restart
ReaderEofSet_restarts(i) ==
    /\ readerPc[i] = "eof_set"
    /\ set_state("Restarting")
    /\ readerPc' = [readerPc EXCEPT ![i] = "done"]
    /\ UNCHANGED <<idVars, pending, slot, chanVars, readerNote, healthVars, callerVars,
                   startVars, shutVars>>
    /\ UNCHANGED extVars

\* EOF branch: set_state(Degraded) (line 291)
ReaderEofSet(i) ==
    /\ readerPc[i] = "eof_set"
    /\ set_state("Degraded")
    /\ readerPc' = [readerPc EXCEPT ![i] = "done"]
    /\ UNCHANGED <<idVars, pending, slot, chanVars, readerNote, healthVars, callerVars,
                   startVars, shutVars>>
    /\ UNCHANGED extVars

\* read_message returns Err: cancel_all_pending and break (lines 295-299)
ReaderError(i) ==
    /\ readerPc[i] = "select"
    /\ cancel_all_pending(ReadError)
    /\ readerPc' = [readerPc EXCEPT ![i] = "done"]
    /\ readerNote' = [readerNote EXCEPT ![i] = FALSE]
    /\ written' = Awaited([written EXCEPT ![i] = {}], pending')
    /\ UNCHANGED <<bridgeVars, idVars, cur, queue, writerAlive, healthVars, callerVars,
                   startVars, shutVars>>
    /\ UNCHANGED extVars

\* shutdown.notified() (lines 302-305)
ReaderShutdown(i) ==
    /\ readerPc[i] = "select"
    /\ readerNote[i]
    /\ readerPc' = [readerPc EXCEPT ![i] = "done"]
    /\ readerNote' = [readerNote EXCEPT ![i] = FALSE]
    /\ written' = [written EXCEPT ![i] = {}]
    /\ UNCHANGED <<bridgeVars, idVars, pending, slot, cur, queue, writerAlive, healthVars,
                   callerVars, startVars, shutVars>>
    /\ UNCHANGED extVars

(***************************************************************************)
(* The health task of instance i (lines 114-186)                           *)
(***************************************************************************)
\* the 60 s grace sleep and the skipped first tick are over (lines 118-121)
HealthWake(i) ==
    /\ healthPc[i] = "sleep"
    /\ healthPc' = [healthPc EXCEPT ![i] = "select"]
    /\ UNCHANGED <<bridgeVars, idVars, pending, slot, chanVars, readerVars, healthNote,
                   healthCtr, healthFail, callerVars, startVars, shutVars>>
    /\ UNCHANGED extVars

\* a tick that pings whatever the state is
HealthTick_any_state(i) ==
    /\ healthPc[i] = "select"
    /\ healthNote' = [healthNote EXCEPT ![i] = FALSE]
    /\ healthCtr[i] <= MaxPingId
    /\ healthCtr' = [healthCtr EXCEPT ![i] = @ + 1]
    /\ idsUsed' = idsUsed \cup {healthCtr[i]}
    /\ idCount' = idCount + 1
    /\ pending' = Push(pending, healthCtr[i], PingOwner(i))
    /\ healthPc' = [healthPc EXCEPT ![i] = "sending"]
    /\ UNCHANGED <<bridgeVars, request_id, slot, chanVars, readerVars, healthFail, callerVars,
                   startVars, shutVars>>
    /\ UNCHANGED extVars

\* interval.tick(): state check, fetch_add on the task's own counter, push (lines 128-141)
HealthTick(i) ==
    /\ healthPc[i] = "select"
    /\ healthNote' = [healthNote EXCEPT ![i] = FALSE]
    /\ IF state # "Ready"
       THEN /\ healthPc' = [healthPc EXCEPT ![i] = "done"]
            /\ UNCHANGED <<pending, healthCtr, idsUsed, idCount>>
       ELSE /\ healthCtr[i] <= MaxPingId
            /\ healthCtr' = [healthCtr EXCEPT ![i] = @ + 1]
            /\ idsUsed' = idsUsed \cup {healthCtr[i]}
            /\ idCount' = idCount + 1
            /\ pending' = Push(pending, healthCtr[i], PingOwner(i))
            /\ healthPc' = [healthPc EXCEPT ![i] = "sending"]
    /\ UNCHANGED <<bridgeVars, request_id, slot, chanVars, readerVars, healthFail, callerVars,
                   startVars, shutVars>>
    /\ UNCHANGED extVars

\* shutdown.notified() or health_shutdown.notified() (lines 178-183)
HealthShutdown(i) ==
    /\ healthPc[i] = "select"
    /\ healthNote[i]
    /\ healthPc' = [healthPc EXCEPT ![i] = "done"]
    /\ healthNote' = [healthNote EXCEPT ![i] = FALSE]
    /\ UNCHANGED <<bridgeVars, idVars, pending, slot, chanVars, readerVars, healthCtr,
                   healthFail, callerVars, startVars, shutVars>>
    /\ UNCHANGED extVars

\* request_tx.send(request); a closed channel degrades (lines 143-147)
HealthSend(i) ==
    /\ healthPc[i] = "sending"
    /\ \/ /\ HasRoom(i)
          /\ Enqueue(i, Msg(healthCtr[i] - 1, PingOwner(i)))
          /\ healthPc' = [healthPc EXCEPT ![i] = "awaiting"]
          /\ UNCHANGED <<bridgeVars, pending, slot>>
       \/ /\ Closed(i)
          /\ pending' = DropReceiver(pending, PingOwner(i))
          /\ slot' = [slot EXCEPT ![PingOwner(i)] = None]
          /\ set_state("Degraded")
          /\ healthPc' = [healthPc EXCEPT ![i] = "done"]
          /\ UNCHANGED queue
    /\ UNCHANGED <<idVars, cur, writerAlive, written, readerVars, healthNote, healthCtr,
                   healthFail, callerVars, startVars, shutVars>>
    /\ UNCHANGED extVars

\* a failed ping that degrades one failure early
PingFailed_early(i) ==
    /\ healthFail' = [healthFail EXCEPT ![i] = @ + 1]
    /\ IF healthFail[i] + 2 >= MAX_FAILURES
       THEN /\ set_state("Degraded")
            /\ healthPc' = [healthPc EXCEPT ![i] = "done"]
       ELSE /\ healthPc' = [healthPc EXCEPT ![i] = "select"]
            /\ UNCHANGED bridgeVars

\* a failed ping: consecutive_failures += 1, Degraded at MAX_FAILURES (lines 156-161, 169-174)
PingFailed(i) ==
    /\ healthFail' = [healthFail EXCEPT ![i] = @ + 1]
    /\ IF healthFail[i] + 1 >= MAX_FAILURES
       THEN /\ set_state("Degraded")
            /\ healthPc' = [healthPc EXCEPT ![i] = "done"]
       ELSE /\ healthPc' = [healthPc EXCEPT ![i] = "select"]
            /\ UNCHANGED bridgeVars

\* the ping is answered with a result (lines 151-154)
HealthPingOk(i) ==
    /\ healthPc[i] = "awaiting"
    /\ slot[PingOwner(i)].t = "Ok"
    /\ slot' = [slot EXCEPT ![PingOwner(i)] = None]
    /\ healthFail' = [healthFail EXCEPT ![i] = 0]
    /\ healthPc' = [healthPc EXCEPT ![i] = "select"]
    /\ UNCHANGED <<bridgeVars, idVars, pending, chanVars, readerVars, healthNote, healthCtr,
                   callerVars, startVars, shutVars>>
    /\ UNCHANGED extVars

\* the ping is answered with an error, also a cancellation (lines 155-162)
HealthPingErr(i) ==
    /\ healthPc[i] = "awaiting"
    /\ slot[PingOwner(i)].t = "Err"
    /\ slot' = [slot EXCEPT ![PingOwner(i)] = None]
    /\ PingFailed(i)
    /\ UNCHANGED <<idVars, pending, chanVars, readerVars, healthNote, healthCtr, callerVars,
                   startVars, shutVars>>
    /\ UNCHANGED extVars

\* no answer within 30 s (lines 168-175)
HealthPingTimeout(i) ==
    /\ healthPc[i] = "awaiting"
    /\ slot[PingOwner(i)] = None
    /\ pending' = DropReceiver(pending, PingOwner(i))
    /\ PingFailed(i)
    /\ UNCHANGED <<idVars, slot, chanVars, readerVars, healthNote, healthCtr, callerVars,
                   startVars, shutVars>>
    /\ UNCHANGED extVars

(***************************************************************************)
(* The specification                                                       *)
(***************************************************************************)
CallerStep(c) ==
    \/ wait_for_ready_changed(c)
    \/ wait_for_ready_timeout(c)
    \/ RequestRegister(c)
    \/ RequestSend(c)
    \/ RequestReceive(c)
    \/ RequestTimeout(c)
    \/ NotifySend(c)

StartStep ==
    \/ StartSpawnFailed
    \/ StartSpawn
    \/ StartRegister
    \/ StartSend
    \/ StartInitOk
    \/ StartInitErr
    \/ StartInitTimeout

ShutdownStep ==
    \/ ShutdownCancel
    \/ ShutdownNextId
    \/ ShutdownSend
    \/ ShutdownSet

ReaderStep(i) ==
    \/ ReaderMessage(i)
    \/ ReaderEofState(i)
    \/ ReaderEofSet(i)
    \/ ReaderShutdown(i)

HealthStep(i) ==
    \/ HealthWake(i)
    \/ HealthTick(i)
    \/ HealthShutdown(i)
    \/ HealthSend(i)
    \/ HealthPingOk(i)
    \/ HealthPingErr(i)
    \/ HealthPingTimeout(i)

Next ==
    \/ \E c \in Callers : RequestBegin(c) \/ NotifyBegin(c) \/ CallerStep(c)
    \/ StartBegin
    \/ StartStep
    \/ ShutdownBegin
    \/ ShutdownStep
    \/ \E i \in Insts : ReaderStep(i) \/ ReaderEof(i) \/ ReaderError(i)
    \/ \E i \in Insts : WriterWrite(i) \/ WriterFail(i)
    \/ \E i \in Insts : HealthStep(i)

Spec == Init /\ [][Next]_vars

\* The runtime schedules every task of the bridge that can take a step, and every timer
\* fires; nothing obliges the sidecar to read its stdin or to answer, or a caller to call.
Fairness ==
    /\ \A c \in Callers : WF_vars(CallerStep(c))
    /\ WF_vars(StartStep)
    /\ WF_vars(ShutdownStep)
    /\ \A i \in Insts : WF_vars(ReaderEofState(i) \/ ReaderEofSet(i) \/ ReaderShutdown(i))
    /\ \A i \in Insts : WF_vars(HealthStep(i))

FairSpec == Spec /\ Fairness

(***************************************************************************)
(* The reader task against a sidecar that may write any response: start()  *)
(* and the callers of request() as above, the reader task taking responses *)
(* with any id, with or without error object, with or without result.      *)
(***************************************************************************)
\* read_message returns Ok(Some(response)), for any response: dispatch_response
\* (lines 281-284); the response is recorded in `received`
ReaderResponse(i) ==
    /\ readerPc[i] = "select"
    /\ \E id \in 0..MaxId, e \in {NoError} \cup ResponseErrors :
       \E v \in {NoResult} \cup Results(id) :
          /\ dispatch_response([id |-> id, error |-> e, result |-> v])
          /\ received' = [id |-> id, error |-> e, result |-> v, read |-> TRUE]
    /\ written' = Awaited(written, pending')
    /\ readerNote' = [readerNote EXCEPT ![i] = FALSE]
    /\ UNCHANGED <<bridgeVars, idVars, cur, queue, writerAlive, readerPc, healthVars,
                   callerVars, startVars, shutVars>>
    /\ UNCHANGED notDispatchVars

DispatchNext ==
    \/ \E c \in Callers : RequestBegin(c) \/ NotifyBegin(c) \/ CallerStep(c)
    \/ StartBegin
    \/ StartStep
    \/ \E i \in Insts : WriterWrite(i)
    \/ \E i \in Insts : ReaderResponse(i)

DispatchSpec == Init /\ [][DispatchNext]_vars

(***************************************************************************)
(* A bridge that is started a second time: start() and the callers as      *)
(* above, and the reader and writer tasks of both instances. The second    *)
(* start() replaces the child in Bridge.child, which drops and kills the   *)
(* first one (kill_on_drop), so the first reader meets the end of its      *)
(* stream whenever its read completes.                                     *)
(***************************************************************************)
RestartNext ==
    \/ \E c \in Callers : RequestBegin(c) \/ NotifyBegin(c) \/ CallerStep(c)
    \/ StartAgain
    \/ StartStep
    \/ \E i \in Insts : \/ ReaderMessage(i)
                         \/ ReaderEof(i)
                         \/ ReaderEofState(i)
                         \/ ReaderEofSet(i)
    \/ \E i \in Insts : WriterWrite(i)

RestartSpec == Init /\ [][RestartNext]_vars

(***************************************************************************)
(* A bridge in the 60 s after start(): the health task is in its grace     *)
(* sleep (bridge.rs line 118) and takes no step; callers, start(),         *)
(* shutdown() and the reader and writer tasks as in Next.                  *)
(***************************************************************************)
GraceNext ==
    \/ \E c \in Callers : RequestBegin(c) \/ NotifyBegin(c) \/ CallerStep(c)
    \/ StartBegin
    \/ StartStep
    \/ ShutdownBegin
    \/ ShutdownStep
    \/ \E i \in Insts : ReaderStep(i) \/ ReaderEof(i) \/ ReaderError(i)
    \/ \E i \in Insts : WriterWrite(i) \/ WriterFail(i)

GraceSpec == Init /\ [][GraceNext]_vars

(***************************************************************************)
(* A bridge nobody calls: start(), shutdown() and the reader, writer and   *)
(* health tasks as in Next, with no request() and no notify().             *)
(***************************************************************************)
BackgroundNext ==
    \/ StartBegin
    \/ StartStep
    \/ ShutdownBegin
    \/ ShutdownStep
    \/ \E i \in Insts : ReaderStep(i) \/ ReaderEof(i) \/ ReaderError(i)
    \/ \E i \in Insts : WriterWrite(i) \/ WriterFail(i)
    \/ \E i \in Insts : HealthStep(i)

BackgroundSpec == Init /\ [][BackgroundNext]_vars

(***************************************************************************)
(* The three senders of messages that carry an id, side by side: start(),  *)
(* request() and the health task, with the reader and writer tasks of a    *)
(* sidecar that may answer, stay silent or close its stdout.               *)
(***************************************************************************)
PingNext ==
    \/ \E c \in Callers : \/ RequestBegin(c)
                           \/ wait_for_ready_changed(c)
                           \/ wait_for_ready_timeout(c)
                           \/ RequestRegister(c)
                           \/ RequestSend(c)
                           \/ RequestReceive(c)
                           \/ RequestTimeout(c)
    \/ StartBegin
    \/ StartStep
    \/ \E i \in Insts : \/ ReaderMessage(i)
                         \/ ReaderEof(i)
                         \/ ReaderEofState(i)
                         \/ ReaderEofSet(i)
    \/ \E i \in Insts : WriterWrite(i)
    \/ \E i \in Insts : \/ HealthWake(i)
                         \/ HealthTick(i)
                         \/ HealthSend(i)
                         \/ HealthPingOk(i)
                         \/ HealthPingErr(i)
                         \/ HealthPingTimeout(i)

PingSpec == Init /\ [][PingNext]_vars

\* the tasks of PingNext under the scheduling of Fairness: shutdown() is never called and
\* no caller is in notify(), so the steps Fairness names beyond PingNext are never enabled
FairPingSpec == PingSpec /\ Fairness

(***************************************************************************)
(* The sidecar child processes: start() spawns with kill_on_drop(true) and *)
(* stores the Child in Bridge.child; the Child is dropped when start()     *)
(* leaves before storing it, when a later start() overwrites the slot, and *)
(* when the bridge is dropped.  shutdown() does not touch Bridge.child.    *)
(***************************************************************************)
\* a Child handle spawned without kill_on_drop is dropped: the process keeps running
drop_without_kill(c) ==
    /\ running' = running
    /\ killed' = killed

\* a Child handle spawned with kill_on_drop(true) is dropped: the process is killed
kill_on_drop(c) ==
    /\ running' = running \ {c}
    /\ killed' = killed \cup ({c} \cap running)

\* start(): Command::spawn succeeds, the Child is in start()'s local variable (lines 221-236)
SpawnChild ==
    /\ ~dropped
    /\ local = 0
    /\ spawned < MaxChildren
    /\ spawned' = spawned + 1
    /\ local' = spawned + 1
    /\ running' = running \cup {spawned + 1}
    /\ UNCHANGED <<child, killed, dropped>>
    /\ UNCHANGED notChildVars

\* start(): stdin or stdout cannot be captured, `?` returns and drops the local Child
\* (lines 238-245)
CaptureFails ==
    /\ local # 0
    /\ kill_on_drop(local)
    /\ local' = 0
    /\ UNCHANGED <<child, spawned, dropped>>
    /\ UNCHANGED notChildVars

\* start(): *child_slot = Some(child); the Child stored before is dropped (lines 250-254)
StoreChild ==
    /\ local # 0
    /\ child' = local
    /\ local' = 0
    /\ kill_on_drop(child)
    /\ UNCHANGED <<spawned, dropped>>
    /\ UNCHANGED notChildVars

\* a sidecar process ends by itself: it crashes, or obeys a shutdown request
SidecarExits(n) ==
    /\ n \in running
    /\ running' = running \ {n}
    /\ UNCHANGED <<child, local, killed, spawned, dropped>>
    /\ UNCHANGED notChildVars

\* the bridge is dropped: its field child is dropped with it (lines 567-574); start()
\* borrows the bridge, so no start() is running
BridgeDrop ==
    /\ ~dropped
    /\ local = 0
    /\ dropped' = TRUE
    /\ child' = 0
    /\ kill_on_drop(child)
    /\ UNCHANGED <<local, spawned>>
    /\ UNCHANGED notChildVars

ChildNext ==
    \/ SpawnChild
    \/ CaptureFails
    \/ StoreChild
    \/ \E n \in 1..MaxChildren : SidecarExits(n)
    \/ BridgeDrop

ChildSpec == Init /\ [][ChildNext]_vars

(***************************************************************************)
(* The order of the writes: producers send on the mpsc channel, the writer *)
(* task receives one message at a time and writes its frame with           *)
(* jsonrpc::write_message (header, body, flush).                           *)
(***************************************************************************)
\* a receive that takes the newest message of the channel
recv_newest ==
    /\ writerPc = "recv"
    /\ rx # <<>>
    /\ request' = rx[Len(rx)]
    /\ rx' = SubSeq(rx, 1, Len(rx) - 1)
    /\ writerPc' = "header"
    /\ UNCHANGED <<rxOpen, stdin, accepted, issued>>
    /\ UNCHANGED notOrderVars

\* Sender::send by producer p: its n-th message, accepted when the channel has room; a
\* producer sends its next message only after this send has returned (lines 469-474, 490-495)
send(p) ==
    /\ rxOpen
    /\ issued[p] < MaxIssued
    /\ Len(rx) < OrderCap
    /\ issued' = [issued EXCEPT ![p] = @ + 1]
    /\ rx' = Append(rx, [p |-> p, n |-> issued[p] + 1])
    /\ accepted' = Append(accepted, [p |-> p, n |-> issued[p] + 1])
    /\ UNCHANGED <<rxOpen, request, writerPc, stdin>>
    /\ UNCHANGED notOrderVars

\* writer task: rx.recv() returns the oldest message (line 323)
recv ==
    /\ writerPc = "recv"
    /\ rx # <<>>
    /\ request' = Head(rx)
    /\ rx' = Tail(rx)
    /\ writerPc' = "header"
    /\ UNCHANGED <<rxOpen, stdin, accepted, issued>>
    /\ UNCHANGED notOrderVars

\* write_message: write_all(header) (jsonrpc.rs lines 65-70)
write_header ==
    /\ writerPc = "header"
    /\ stdin' = Append(stdin, [part |-> "header", of |-> request])
    /\ writerPc' = "body"
    /\ UNCHANGED <<rx, rxOpen, request, accepted, issued>>
    /\ UNCHANGED notOrderVars

\* write_message: write_all(body) and flush (jsonrpc.rs lines 71-77), back to recv
write_body ==
    /\ writerPc = "body"
    /\ stdin' = Append(stdin, [part |-> "body", of |-> request])
    /\ request' = NoRequest
    /\ writerPc' = "recv"
    /\ UNCHANGED <<rx, rxOpen, accepted, issued>>
    /\ UNCHANGED notOrderVars

\* write_message fails: the task breaks and drops the receiver (lines 325-328)
write_fails ==
    /\ writerPc \in {"header", "body"}
    /\ writerPc' = "done"
    /\ rxOpen' = FALSE
    /\ rx' = <<>>
    /\ UNCHANGED <<request, stdin, accepted, issued>>
    /\ UNCHANGED notOrderVars

OrderNext ==
    \/ \E p \in Producers : send(p)
    \/ recv
    \/ write_header
    \/ write_body
    \/ write_fails

OrderSpec == Init /\ [][OrderNext]_vars

(***************************************************************************)
(* The document session: didOpen/didChange/didClose handlers and the       *)
(* debounce loop (server.rs lines 146-205, 603-658; state.rs lines 22-41). *)
(* Time passes in ticks while the loop sleeps in its select!; the loop     *)
(* takes a message that is ready before more time passes.                  *)
(***************************************************************************)
\* DocumentStore::open
open(uri, text, version) == documents' = [documents EXCEPT ![uri] = Document(text, version)]

\* a change that stores the document also when the URI is not open
change_inserts(uri, text, version) ==
    documents' = [documents EXCEPT ![uri] = Document(text, version)]

\* DocumentStore::change: replaces text and version of an open document
change(uri, text, version) ==
    documents' = [documents EXCEPT ![uri] =
                      IF @ # NoDocument THEN Document(text, version) ELSE @]

\* a close that empties the store
close_all(uri) == documents' = [u \in Uris |-> NoDocument]

\* DocumentStore::close
close(uri) == documents' = [documents EXCEPT ![uri] = NoDocument]

\* what bridge.request("analyze") and parse_diagnostics give: Failed for Err(e), else the
\* parsed list of the result
Failed == [ok |-> FALSE, diagnostics |-> <<>>]
Analyses == {[ok |-> TRUE, diagnostics |-> d] : d \in Diags} \cup {Failed}

\* the end of an analyze cycle: Ok(result) publishes the parsed diagnostics, Err(e) only
\* logs (server.rs lines 84-93 and 187-194)
analyzed(uri, r) ==
    published' = IF r.ok THEN Publish("analyze", uri, r.diagnostics) ELSE published

\* did_open for a document that is not open (a client opens a document once):
\* documents.open, then analyze_document, which returns early unless the bridge is Ready.
\* The handler is one step: its wait for the bridge mutex is not a position of its own.
did_open(uri, text, version, r) ==
    /\ documents[uri] = NoDocument
    /\ open(uri, text, version)
    /\ lastEdit' = [lastEdit EXCEPT ![uri] = Document(text, version)]
    /\ IF bridgeIs = "Ready" THEN analyzed(uri, r) ELSE UNCHANGED published
    /\ UNCHANGED <<debounce_rx, debPending, elapsed, loopPc, taken, bridgeIs, lastDidChange,
                   burst, lastSkipped, replaced>>
    /\ UNCHANGED notServerVars

\* did_change: documents.change, then tx.send(uri) to the debounce loop
did_change(uri, text, version) ==
    /\ Len(debounce_rx) < DebounceCap
    /\ change(uri, text, version)
    /\ lastEdit' = [lastEdit EXCEPT ![uri] =
                        IF documents[uri] # NoDocument THEN Document(text, version) ELSE @]
    /\ debounce_rx' = Append(debounce_rx, uri)
    /\ UNCHANGED <<debPending, elapsed, loopPc, taken, bridgeIs, lastDidChange, burst,
                   lastSkipped, published, replaced>>
    /\ UNCHANGED notServerVars

\* did_close: documents.close, then client.publish_diagnostics(uri, Vec::new(), None)
did_close(uri) ==
    /\ documents[uri] # NoDocument
    /\ close(uri)
    /\ lastEdit' = [lastEdit EXCEPT ![uri] = NoDocument]
    /\ published' = Publish("did_close", uri, <<>>)
    /\ UNCHANGED <<debounce_rx, debPending, elapsed, loopPc, taken, bridgeIs, lastDidChange,
                   burst, lastSkipped, replaced>>
    /\ UNCHANGED notServerVars

\* `initialized` stores the bridge once start() has returned Ok (lines 543-558), and the
\* server starts it no more: the state the loop finds goes from Ready to Degraded (the
\* bridge's tasks) and to Stopped (the shutdown handler)
bridge_changes(b) ==
    /\ \/ bridgeIs = NoBridge /\ b \in {"Ready", "Degraded"}
       \/ bridgeIs = "Ready" /\ b \in {"Degraded", "Stopped"}
       \/ bridgeIs = "Degraded" /\ b = "Stopped"
    /\ bridgeIs' = b
    /\ UNCHANGED <<documents, debounce_rx, debPending, elapsed, loopPc, taken, lastDidChange,
                   lastEdit, burst, lastSkipped, published, replaced>>
    /\ UNCHANGED notServerVars

\* a receive that lets the running sleep go on
debounce_recv_keeps_timer ==
    /\ loopPc = "select"
    /\ debounce_rx # <<>>
    /\ debPending' = Head(debounce_rx)
    /\ debounce_rx' = Tail(debounce_rx)
    /\ burst' = IF Head(debounce_rx) # debPending THEN 1
                ELSE IF burst < MaxBurst THEN burst + 1 ELSE burst
    /\ replaced' = IF debPending \notin {NoUri, Head(debounce_rx)} THEN debPending ELSE replaced
    /\ UNCHANGED <<documents, elapsed, loopPc, taken, bridgeIs, lastDidChange, lastEdit,
                   lastSkipped, published>>
    /\ UNCHANGED notServerVars

\* a receive that keeps the URI already pending
debounce_recv_keeps_first ==
    /\ loopPc = "select"
    /\ debounce_rx # <<>>
    /\ debPending' = IF debPending = NoUri THEN Head(debounce_rx) ELSE debPending
    /\ debounce_rx' = Tail(debounce_rx)
    /\ elapsed' = 0
    /\ burst' = IF Head(debounce_rx) # debPending THEN 1
                ELSE IF burst < MaxBurst THEN burst + 1 ELSE burst
    /\ replaced' = IF debPending \notin {NoUri, Head(debounce_rx)} THEN debPending ELSE replaced
    /\ UNCHANGED <<documents, loopPc, taken, bridgeIs, lastDidChange, lastEdit, lastSkipped,
                   published>>
    /\ UNCHANGED notServerVars

\* select!: rx.recv() returns Some(uri): pending = Some(uri), and the next iteration
\* starts a new sleep (lines 157-164)
debounce_recv ==
    /\ loopPc = "select"
    /\ debounce_rx # <<>>
    /\ debPending' = Head(debounce_rx)
    /\ debounce_rx' = Tail(debounce_rx)
    /\ elapsed' = 0
    /\ burst' = IF Head(debounce_rx) # debPending THEN 1
                ELSE IF burst < MaxBurst THEN burst + 1 ELSE burst
    /\ replaced' = IF debPending \notin {NoUri, Head(debounce_rx)} THEN debPending ELSE replaced
    /\ UNCHANGED <<documents, loopPc, taken, bridgeIs, lastDidChange, lastEdit, lastSkipped,
                   published>>
    /\ UNCHANGED notServerVars

\* the sleep of the select! runs on, with no message ready (line 165)
debounce_tick ==
    /\ loopPc = "select"
    /\ debPending # NoUri
    /\ debounce_rx = <<>>
    /\ elapsed < DebounceTicks
    /\ elapsed' = elapsed + 1
    /\ UNCHANGED <<documents, debounce_rx, debPending, loopPc, taken, bridgeIs, lastDidChange,
                   lastEdit, burst, lastSkipped, published, replaced>>
    /\ UNCHANGED notServerVars

\* select!: the sleep has completed: pending.take() (lines 165-166)
debounce_fire ==
    /\ loopPc = "select"
    /\ debPending # NoUri
    /\ elapsed = DebounceTicks
    /\ taken' = debPending
    /\ debPending' = NoUri
    /\ elapsed' = 0
    /\ loopPc' = "fired"
    /\ replaced' = NoUri
    /\ UNCHANGED <<documents, debounce_rx, bridgeIs, lastDidChange, lastEdit, burst,
                   lastSkipped, published>>
    /\ UNCHANGED notServerVars

\* a timer branch that puts the URI back when the bridge is not Ready
debounce_cycle_retries(ok) ==
    /\ loopPc = "fired"
    /\ mutex = NoTask
    /\ IF bridgeIs = "Ready" /\ documents[taken] # NoDocument
       THEN /\ lastDidChange' = [uri |-> taken, doc |-> documents[taken]]
            /\ notified' = IF ok THEN "Ok" ELSE "Err"
            /\ mutex' = "loop"
            /\ loopPc' = "analyze"
            /\ UNCHANGED <<taken, lastSkipped, debPending, burst>>
       ELSE /\ loopPc' = "select"
            /\ lastSkipped' = taken
            /\ debPending' = taken
            /\ taken' = NoUri
            /\ burst' = 0
            /\ UNCHANGED <<lastDidChange, notified, mutex>>
    /\ UNCHANGED <<documents, debounce_rx, elapsed, bridgeIs, lastEdit, published, replaced>>
    /\ UNCHANGED <<handlerPc, notLockVars>>

\* a timer branch that gives the cycle up when the notification failed
debounce_cycle_needs_notify(ok) ==
    /\ loopPc = "fired"
    /\ mutex = NoTask
    /\ IF bridgeIs = "Ready" /\ documents[taken] # NoDocument /\ ok
       THEN /\ lastDidChange' = [uri |-> taken, doc |-> documents[taken]]
            /\ notified' = "Ok"
            /\ mutex' = "loop"
            /\ loopPc' = "analyze"
            /\ UNCHANGED <<taken, lastSkipped, burst>>
       ELSE /\ loopPc' = "select"
            /\ lastSkipped' = taken
            /\ taken' = NoUri
            /\ burst' = 0
            /\ UNCHANGED <<lastDidChange, notified, mutex>>
    /\ UNCHANGED <<documents, debounce_rx, debPending, elapsed, bridgeIs, lastEdit, published,
                   replaced>>
    /\ UNCHANGED <<handlerPc, notLockVars>>

\* timer branch: bridge.lock().await; bridge present and Ready, document open: the text
\* and version are cloned and the documents lock dropped, notify(didChange) carries them
\* and returns Ok or Err (`let _ =`), then request("analyze") is called; otherwise
\* nothing is sent and the guard is dropped (lines 165-197). notify() does not wait
\* for the sidecar, so the step ends with the request in flight.
debounce_cycle(ok) ==
    /\ loopPc = "fired"
    /\ mutex = NoTask
    /\ IF bridgeIs = "Ready" /\ documents[taken] # NoDocument
       THEN /\ lastDidChange' = [uri |-> taken, doc |-> documents[taken]]
            /\ notified' = IF ok THEN "Ok" ELSE "Err"
            /\ mutex' = "loop"
            /\ loopPc' = "analyze"
            /\ UNCHANGED <<taken, lastSkipped, burst>>
       ELSE /\ loopPc' = "select"
            /\ lastSkipped' = taken
            /\ taken' = NoUri
            /\ burst' = 0
            /\ UNCHANGED <<lastDidChange, notified, mutex>>
    /\ UNCHANGED <<documents, debounce_rx, debPending, elapsed, bridgeIs, lastEdit, published,
                   replaced>>
    /\ UNCHANGED <<handlerPc, notLockVars>>

\* timer branch: bridge.request("analyze") has returned; Ok(result) is parsed and
\* published; the guard of the bridge mutex is dropped at the end of the block; back to
\* the select! (lines 184-197)
debounce_done(r) ==
    /\ loopPc = "analyze"
    /\ analyzed(taken, r)
    /\ loopPc' = "select"
    /\ taken' = NoUri
    /\ lastSkipped' = NoUri
    /\ burst' = 0
    /\ notified' = "none"
    /\ mutex' = NoTask
    /\ UNCHANGED <<documents, debounce_rx, debPending, elapsed, bridgeIs, lastDidChange,
                   lastEdit, replaced>>
    /\ UNCHANGED <<handlerPc, notLockVars>>

\* a handler whose guard of the bridge mutex is dropped before its call
handler_call_unlocked(h) ==
    /\ handlerPc[h] = "idle"
    /\ mutex = NoTask
    /\ bridgeIs # NoBridge
    /\ h = "did_open" => bridgeIs = "Ready"
    /\ handlerPc' = [handlerPc EXCEPT ![h] = "calling"]
    /\ UNCHANGED <<mutex, notified, serverVars, notLockVars>>

\* hover (lines 699-738; the other LSP request handlers alike), analyze_document of
\* did_open (lines 43-94) and the shutdown handler (lines 582-593):
\* `self.bridge.lock().await`, return when no bridge is stored (analyze_document also when
\* it is not Ready), then the bridge call with the guard alive
handler_call(h) ==
    /\ handlerPc[h] = "idle"
    /\ mutex = NoTask
    /\ bridgeIs # NoBridge
    /\ h = "did_open" => bridgeIs = "Ready"
    /\ handlerPc' = [handlerPc EXCEPT ![h] = "calling"]
    /\ mutex' = h
    /\ UNCHANGED <<notified, serverVars, notLockVars>>

\* the bridge call of the handler has returned and the handler ends, which drops the
\* guard; bridge.shutdown() has left the bridge Stopped (bridge.rs lines 500-546)
handler_return(h) ==
    /\ handlerPc[h] = "calling"
    /\ handlerPc' = [handlerPc EXCEPT ![h] = "idle"]
    /\ mutex' = IF mutex = h THEN NoTask ELSE mutex
    /\ bridgeIs' = IF h = "shutdown" THEN "Stopped" ELSE bridgeIs
    /\ UNCHANGED <<documents, debounce_rx, debPending, elapsed, loopPc, taken, lastDidChange,
                   lastEdit, burst, lastSkipped, published, replaced>>
    /\ UNCHANGED <<notified, notLockVars>>

ServerNext ==
    \/ \E u \in Uris, t \in Texts, v \in Versions :
           \/ \E r \in Analyses : did_open(u, t, v, r)
           \/ did_change(u, t, v)
    \/ \E u \in Uris : did_close(u)
    \/ \E b \in States : bridge_changes(b)
    \/ debounce_recv
    \/ debounce_tick
    \/ debounce_fire
    \/ \E ok \in BOOLEAN : debounce_cycle(ok)
    \/ \E r \in Analyses : debounce_done(r)

ServerSpec == Init /\ [][ServerNext]_vars

(***************************************************************************)
(* The debounce loop next to the handlers that lock the bridge: one text   *)
(* and one version, analyses that fail, and the calls of hover,            *)
(* analyze_document and the shutdown handler as positions of their own.    *)
(***************************************************************************)
HandlerNext ==
    \/ \E u \in Uris : \/ did_open(u, "a", 1, Failed)
                        \/ did_change(u, "a", 1)
                        \/ did_close(u)
    \/ \E b \in {"Ready", "Degraded"} : bridge_changes(b)
    \/ debounce_recv
    \/ debounce_tick
    \/ debounce_fire
    \/ \E ok \in BOOLEAN : debounce_cycle(ok)
    \/ debounce_done(Failed)
    \/ \E h \in Handlers : handler_call(h) \/ handler_return(h)

HandlerSpec == Init /\ [][HandlerNext]_vars

\* The loop's steps up to the call of request("analyze") are taken when they can be: the
\* select! polls both branches, and tokio's Mutex hands the lock to its waiters in the
\* order they asked. No call on the bridge is known to return (request() and notify()
\* can wait in `request_tx.send(..).await` without a limit).
HandlerFairness ==
    /\ WF_vars(debounce_recv)
    /\ WF_vars(debounce_tick)
    /\ WF_vars(debounce_fire)
    /\ SF_vars(\E ok \in BOOLEAN : debounce_cycle(ok))

FairHandlerSpec == HandlerSpec /\ HandlerFairness

(***************************************************************************)
(* The debounce loop under edits of one kind: documents are opened with    *)
(* text "a" at version 1 while the analysis fails, and every change sets   *)
(* text "b" at version MaxVersion; the bridge changes as in ServerNext.    *)
(***************************************************************************)
DebounceNext ==
    \/ \E u \in Uris : \/ did_open(u, "a", 1, Failed)
                        \/ did_change(u, "b", MaxVersion)
                        \/ did_close(u)
    \/ \E b \in States : bridge_changes(b)
    \/ debounce_recv
    \/ debounce_tick
    \/ debounce_fire
    \/ \E ok \in BOOLEAN : debounce_cycle(ok)
    \/ debounce_done(Failed)

DebounceSpec == Init /\ [][DebounceNext]_vars

(***************************************************************************)
(* The document handlers alone: did_open, did_change and did_close with    *)
(* any text, version and analysis result, beside a bridge that changes;    *)
(* the debounce loop takes no step, the change events stay in its channel. *)
(***************************************************************************)
EditNext ==
    \/ \E u \in Uris, t \in Texts, v \in Versions :
           \/ \E r \in Analyses : did_open(u, t, v, r)
           \/ did_change(u, t, v)
    \/ \E u \in Uris : did_close(u)
    \/ \E b \in States : bridge_changes(b)

EditSpec == Init /\ [][EditNext]_vars

(***************************************************************************)
(* Project resolution: parse_gradle_output (project.rs lines 258-314) on   *)
(* any output of at most MaxLines lines and any Config flags.              *)
(***************************************************************************)
\* str::trim
trim(line) == [line EXCEPT !.pad = FALSE]

\* a marker that leaves the in-block flag set at END
in_section_sticky(line, in_section) ==
    IF line = START THEN TRUE ELSE in_section

\* the flag after a trimmed line: set at START, cleared at END (lines 275-282)
in_section_after(line, in_section) ==
    IF line = START THEN TRUE
    ELSE IF line = END THEN FALSE
    ELSE in_section

\* the strip_prefix chain of a trimmed line inside a block (lines 287-303)
push(m, line) ==
    IF line.key = "SOURCE_ROOT=" THEN [m EXCEPT !.source_roots = Append(@, line.value)]
    ELSE IF line.key = "CLASSPATH=" THEN [m EXCEPT !.classpath = Append(@, line.value)]
    ELSE IF line.key = "COMPILER_FLAG=" THEN [m EXCEPT !.compiler_flags = Append(@, line.value)]
    ELSE IF line.key = "GENERATED_SOURCE_ROOT="
         THEN [m EXCEPT !.generated_source_roots = Append(@, line.value)]
    ELSE m

\* for line in output.lines() (lines 273-304)
RECURSIVE for_lines(_, _, _)
for_lines(lines, in_section, m) ==
    IF lines = <<>> THEN m
    ELSE LET line == trim(Head(lines)) IN
         IF line = START \/ line = END
         THEN for_lines(Tail(lines), in_section_after(line, in_section), m)
         ELSE IF ~in_section THEN for_lines(Tail(lines), in_section, m)
         ELSE for_lines(Tail(lines), in_section, push(m, line))

\* Vec::contains
Contains(flags, flag) == \E i \in 1..Len(flags) : flags[i] = flag

\* for flag in &config.compiler_flags: push unless contained (lines 307-311)
RECURSIVE merge_flags(_, _)
merge_flags(flags, rest) ==
    IF rest = <<>> THEN flags
    ELSE merge_flags(IF Contains(flags, Head(rest)) THEN flags ELSE Append(flags, Head(rest)),
                     Tail(rest))

parse_gradle_output(out, cfg) ==
    LET m == for_lines(out, FALSE, EmptyModel) IN
    [m EXCEPT !.compiler_flags = merge_flags(@, cfg)]

\* resolve_gradle_project hands the build tool's stdout to parse_gradle_output (line 255)
ParseGradleOutput ==
    /\ ~model.parsed
    /\ model' = parse_gradle_output(output, config)
    /\ UNCHANGED <<output, config>>
    /\ UNCHANGED notProjectVars

ParseInit ==
    /\ BridgeInit
    /\ ChildInit
    /\ OrderInit
    /\ ServerInit
    /\ StoreInit
    /\ FrameInit
    /\ DispatchInit
    /\ LockInit
    /\ output \in Outputs
    /\ config \in Configs
    /\ model = NoModel

ParseNext == ParseGradleOutput

ParseSpec == ParseInit /\ [][ParseNext]_vars

(***************************************************************************)
(* Framing: read_message (jsonrpc.rs lines 82-136) on any stream of at     *)
(* most MaxHeaders header lines and MaxBody bytes after the blank line.    *)
(***************************************************************************)
\* Option<usize>
NoLength == [some |-> FALSE, n |-> 0]
Length(n) == [some |-> TRUE, n |-> n]

\* read_content_length: the loop over read_line (lines 109-130) and the match after it
RECURSIVE read_content_length(_, _, _)
read_content_length(lines, blank, content_length) ==
    IF lines = <<>>
    THEN IF ~blank THEN Returned("Eof")
         ELSE IF content_length.some THEN [t |-> "Length", n |-> content_length.n]
         ELSE Returned("MissingContentLength")
    ELSE IF Head(lines).name = "Content-Length: "
         THEN IF Head(lines).valid
              THEN read_content_length(Tail(lines), blank, Length(Head(lines).n))
              ELSE Returned("InvalidJsonRpc")
         ELSE read_content_length(Tail(lines), blank, content_length)

\* serde_json::from_slice::<Response>
from_slice(body) ==
    IF body # <<>> /\ \A i \in 1..Len(body) : body[i] = "j"
    THEN Returned("Message")
    ELSE Returned("JsonParse")

\* read_message: read_exact of content_length bytes; UnexpectedEof gives Ok(None)
read_message(s) ==
    LET len == read_content_length(s.headers, s.blank, NoLength) IN
    IF len.t # "Length" THEN len
    ELSE IF Len(s.body) < len.n THEN Returned("Eof")
    ELSE from_slice(SubSeq(s.body, 1, len.n))

\* the reader task calls read_message on the sidecar's stdout (bridge.rs line 280)
ReadMessage ==
    /\ message = NotRead
    /\ message' = read_message(stream)
    /\ UNCHANGED stream
    /\ UNCHANGED notFrameVars

ReadInit ==
    /\ BridgeInit
    /\ ChildInit
    /\ OrderInit
    /\ ServerInit
    /\ StoreInit
    /\ ProjectInit
    /\ DispatchInit
    /\ LockInit
    /\ stream \in Streams
    /\ message = NotRead

FrameNext == ReadMessage

FrameSpec == ReadInit /\ [][FrameNext]_vars

(***************************************************************************)
(* The DocumentStore called directly (state.rs lines 22-66), as its unit   *)
(* tests call it: any call with any arguments, in any order.               *)
(***************************************************************************)
\* DocumentStore::get and DocumentStore::get_diagnostics
get(uri) == documents[uri]
get_diagnostics(uri) == diagnostics[uri]

\* DocumentStore::set_diagnostics
set_diagnostics(uri, diags) == diagnostics' = [diagnostics EXCEPT ![uri] = Some(diags)]

StoreOpen(uri, text, version) ==
    /\ open(uri, text, version)
    /\ returned' = Call("open", uri, Document(text, version), NoDiagnostics, TRUE)
    /\ UNCHANGED diagnostics
    /\ UNCHANGED notStoreVars

\* change returns whether the URI was open
StoreChange(uri, text, version) ==
    /\ change(uri, text, version)
    /\ returned' = Call("change", uri, Document(text, version), NoDiagnostics,
                        get(uri) # NoDocument)
    /\ UNCHANGED diagnostics
    /\ UNCHANGED notStoreVars

\* close returns whether the URI was open: remove(uri).is_some()
StoreClose(uri) ==
    /\ close(uri)
    /\ returned' = Call("close", uri, NoDocument, NoDiagnostics, get(uri) # NoDocument)
    /\ UNCHANGED diagnostics
    /\ UNCHANGED notStoreVars

StoreSetDiagnostics(uri, diags) ==
    /\ set_diagnostics(uri, diags)
    /\ returned' = Call("set_diagnostics", uri, NoDocument, Some(diags), TRUE)
    /\ UNCHANGED documents
    /\ UNCHANGED notStoreVars

StoreNext ==
    \/ \E u \in Uris, t \in Texts, v \in Versions : StoreOpen(u, t, v) \/ StoreChange(u, t, v)
    \/ \E u \in Uris : StoreClose(u)
    \/ \E u \in Uris, d \in Diags : StoreSetDiagnostics(u, d)

StoreSpec == Init /\ [][StoreNext]_vars

(***************************************************************************)
(* Properties                                                              *)
(***************************************************************************)

\* C1: every id-bearing message gets an id no other message of the bridge gets: the ids
\* assigned are exactly 1..K for the K id-bearing messages (request, initialize, shutdown,
\* ping), and no two entries of the pending Vec hold the same id.
IdUniqueness ==
    /\ idsUsed = 1..idCount
    /\ \A j, k \in 1..Len(pending) : j # k => pending[j].id # pending[k].id

\* C2: a request() that returns Ok returns the result the sidecar produced for that very
\* request: the message answered was the caller's own and carried the caller's id.
ResponseMatching ==
    \A c \in Callers :
        (callerOp[c] = "request" /\ callerPc[c] = "idle" /\ result[c].t = "Ok")
            => (result[c].who = CallerOwner(c) /\ result[c].id = callerId[c])

\* C3: every step that moves the state into Stopped or Degraded leaves the pending Vec
\* without any entry whose waiter is still waiting.
DownMeansNoPending ==
    [][(state' # state /\ state' \in {"Stopped", "Degraded"}) => LiveOwners(pending') = {}]_vars

\* C5: after shutdown() has returned, no request() that had passed wait_for_ready before
\* the shutdown began is left waiting for a response that only its timeout can end (its
\* slot is empty and no reader task is running any more).
ShutdownLeavesNoWaiter ==
    shutdownDone =>
        \A c \in preShutdown :
            ~ /\ callerPc[c] = "awaiting"
              /\ slot[CallerOwner(c)] = None
              /\ \A i \in Insts : readerPc[i] # "select"

\* C6: once a request() has returned Timeout after its message was registered, the pending
\* Vec holds no entry of that request.
TimeoutRemovesEntry ==
    \A c \in Callers :
        (callerOp[c] = "request" /\ callerPc[c] = "idle" /\ result[c] = Timeout /\ callerId[c] # 0)
            => ~ \E k \in 1..Len(pending) :
                     pending[k].owner = CallerOwner(c) /\ pending[k].id = callerId[c]

\* C10: a bridge that was never started is Stopped, and after shutdown() has returned the
\* state is Stopped as long as start() is not called again.
StoppedAfterShutdown ==
    /\ starts = 0 => state = "Stopped"
    /\ shutdownDone => state = "Stopped"

\* C7: every call of request() that has begun eventually returns, whatever the sidecar
\* does (it may never answer, exit, or stop reading its stdin).
RequestReturns ==
    \A c \in Callers :
        (callerOp[c] = "request" /\ callerPc[c] # "idle") ~> (callerPc[c] = "idle")

StartupBuffering ==
    [][\A c \in Callers :
          /\ (callerPc[c] = "idle" /\ callerPc'[c] # "idle" /\ state \in {"Starting", "Restarting"})
                => /\ callerPc'[c] = "waiting"
                   /\ <<pending, queue, request_id>>' = <<pending, queue, request_id>>
          /\ (callerPc[c] = "waiting" /\ callerPc'[c] = "admitted") => state = "Ready"
          /\ (callerPc[c] = "waiting" /\ callerPc'[c] = "idle")
                => \/ result'[c] = Timeout
                   \/ result'[c] = NotReady /\ state \in {"Stopped", "Degraded"}
          /\ (callerPc[c] = "waiting" /\ callerPc'[c] # "waiting" /\ result'[c] # Timeout)
                => state \notin {"Starting", "Restarting"}
          /\ callerPc'[c] = "waiting"
                => /\ callerId'[c] = 0
                   /\ CallerOwner(c) \notin LiveOwners(pending')]_vars

\* C8 witness: a request() that went through the wait loop was sent after the state
\* became Ready, and the result of its own message is delivered to it.
StartupBufferingWitness ==
    \E c \in Callers :
        /\ callerOp[c] = "request" /\ callerPc[c] = "awaiting"
        /\ waited[c]
        /\ slot[CallerOwner(c)] = Ok(CallerOwner(c), callerId[c])

\* C9: a call of request() or notify() begun while the state is Stopped or Degraded
\* returns NotReady in that very step: it does not wait, takes no id, registers nothing
\* and sends nothing.
FailFast ==
    [][\A c \in Callers :
          (/\ callerPc[c] = "idle"
           /\ state \in {"Stopped", "Degraded"}
           /\ <<callerPc[c], callerOp[c], result[c]>>' # <<callerPc[c], callerOp[c], result[c]>>)
                => /\ callerPc'[c] = "idle"
                   /\ result'[c] = NotReady
                   /\ <<pending, queue, request_id>>' = <<pending, queue, request_id>>]_vars

\* C9 witness: request() on a bridge that was never started has returned NotReady.
FailFastWitness ==
    \E c \in Callers :
        /\ starts = 0
        /\ callerOp[c] = "request" /\ callerPc[c] = "idle"
        /\ result[c] = NotReady

\* C11: every change of the bridge state is one of the specified transitions: Stopped to
\* Starting, Starting to Ready, Starting to Stopped, Ready to Degraded, Degraded to
\* Restarting, and any state to Stopped by shutdown().
StateTransitions ==
    [][state' # state =>
          \/ state = "Stopped" /\ state' = "Starting"
          \/ state = "Starting" /\ state' \in {"Ready", "Stopped"}
          \/ state = "Ready" /\ state' = "Degraded"
          \/ state = "Degraded" /\ state' = "Restarting"
          \/ shutPc = "set" /\ state' = "Stopped"]_vars

\* C12: the reader step that meets a read error (the reader leaves its select! for good
\* without having been notified of a shutdown) empties the pending Vec, sends Crashed to
\* every waiter, and moves the state to Degraded unless it is Stopped.
ReadErrorDegrades ==
    [][\A i \in Insts :
          (readerPc[i] = "select" /\ readerPc'[i] = "done" /\ ~readerNote[i])
              => /\ pending' = <<>>
                 /\ \A o \in LiveOwners(pending) : slot'[o] = Crashed(ReadError)
                 /\ state # "Stopped" => state' = "Degraded"]_vars

\* C13: when start() has returned SpawnFailed the state is Stopped.
SpawnFailureStops ==
    (startPc = "idle" /\ startResult = SpawnFailed) => state = "Stopped"

\* C14: the state becomes Ready only in the step of start() that receives a successful
\* initialize response; the step of start() that ends the wait for the response returns Ok
\* with the state Ready on a result, and otherwise returns the error it received (a
\* propagated error or a Crashed cancellation), or Timeout when the 30 s elapse, with the
\* state Stopped.
InitializeOutcome ==
    [][/\ (state' = "Ready" /\ state # "Ready")
            => (startPc = "awaiting" /\ slot[InitOwner].t = "Ok")
       /\ (startPc = "awaiting" /\ startPc' = "idle")
            => CASE slot[InitOwner].t = "Ok" ->
                        state' = "Ready" /\ startResult'.t = "Ok"
                 [] slot[InitOwner].t = "Err" ->
                        state' = "Stopped" /\ startResult' = slot[InitOwner]
                 [] OTHER ->
                        state' = "Stopped" /\ startResult' = Timeout]_vars

\* C14 witness: start() has returned Timeout and the state is Stopped.
InitializeOutcomeWitness ==
    /\ startPc = "idle"
    /\ startResult = Timeout
    /\ state = "Stopped"

\* the health task of instance i ends its ping exchange by degrading and terminating
HealthDegradesStep(i) == healthPc[i] \in {"sending", "awaiting"} /\ healthPc'[i] = "done"

\* the health task of instance i ends the wait for a ping response
HealthPingEnds(i) == healthPc[i] = "awaiting" /\ healthPc'[i] # "awaiting"

\* C15 as stated: the health task degrades and terminates exactly when the third ping
\* failure in a row has occurred; a successful ping resets the count.
HealthDegradesOnlyAtThree ==
    [][\A i \in Insts :
          /\ HealthDegradesStep(i) <=> (HealthPingEnds(i) /\ healthFail'[i] = MAX_FAILURES)
          /\ HealthDegradesStep(i) => state' = "Degraded"
          /\ HealthPingEnds(i)
                => healthFail'[i] = IF slot[PingOwner(i)].t = "Ok" THEN 0 ELSE healthFail[i] + 1]_vars

\* C15 amended: the health task degrades and terminates when the third ping failure in a
\* row has occurred, and also, whatever the count, when its send finds the request channel
\* closed; with the channel open, fewer than three failures in a row never degrade, and a
\* successful ping resets the count.
HealthDegrades ==
    [][\A i \in Insts :
          /\ HealthDegradesStep(i)
                => \/ HealthPingEnds(i) /\ healthFail'[i] = MAX_FAILURES
                   \/ healthPc[i] = "sending" /\ Closed(i)
          /\ (HealthPingEnds(i) /\ healthFail'[i] = MAX_FAILURES) => HealthDegradesStep(i)
          /\ (healthPc[i] = "sending" /\ healthPc'[i] # "sending" /\ Closed(i))
                => HealthDegradesStep(i)
          /\ HealthDegradesStep(i) => state' = "Degraded"
          /\ HealthPingEnds(i)
                => healthFail'[i] = IF slot[PingOwner(i)].t = "Ok" THEN 0 ELSE healthFail[i] + 1]_vars

\* C15 witness: the health task has terminated after three ping failures in a row and the
\* state is Degraded.
HealthDegradesWitness ==
    \E i \in Insts :
        /\ healthPc[i] = "done"
        /\ healthFail[i] = MAX_FAILURES
        /\ state = "Degraded"

\* C16: after the bridge has been dropped none of the processes it spawned is running, and
\* at any time the only running process besides the one start() is just creating is the
\* one the bridge owns in Bridge.child.
NoOrphanSidecar ==
    /\ dropped => running = {}
    /\ running \ {local} \subseteq {child}
    /\ Cardinality(running \ {local}) <= 1

\* C16 witness: the bridge was dropped after a start() had replaced a running sidecar, so
\* that one process was killed by the overwrite of Bridge.child and one by the drop.
NoOrphanSidecarWitness ==
    /\ dropped
    /\ Cardinality(killed) >= 2
    /\ spawned \in killed

\* C17: what was written to the sidecar's stdin is the frames of the accepted messages in
\* the order of their acceptance, each frame whole (its header directly followed by its
\* body) but possibly the last one when the write failed; the messages of one producer are
\* written in the order in which it issued them.
FifoWrites ==
    /\ Len(stdin) <= 2 * Len(accepted)
    /\ \A k \in 1..Len(stdin) :
          /\ stdin[k].of = accepted[(k + 1) \div 2]
          /\ stdin[k].part = IF k % 2 = 1 THEN "header" ELSE "body"
    /\ \A j, k \in 1..Len(stdin) :
          (j < k /\ stdin[j].of.p = stdin[k].of.p) => stdin[j].of.n <= stdin[k].of.n

\* C17 witness: two messages of each producer were written, the two producers' messages
\* alternating in the channel.
FifoWritesWitness ==
    /\ Len(stdin) = 8
    /\ stdin[1].of.p # stdin[3].of.p
    /\ stdin[3].of.p # stdin[5].of.p

DebounceSkips ==
    [][/\ (loopPc = "fired" /\ loopPc' # "fired" /\ bridgeIs # "Ready")
            => /\ loopPc' = "select"
               /\ debPending' = NoUri
               /\ lastDidChange' = lastDidChange
       /\ (debPending = NoUri /\ debPending' # NoUri)
            => /\ debPending' = Head(debounce_rx)
               /\ elapsed' = 0]_vars

\* C19 witness: a cycle of u1 was skipped, and a later edit of u1 has led to an issued
\* cycle.
DebounceSkipsWitness ==
    /\ lastSkipped = "u1"
    /\ loopPc = "analyze"
    /\ taken = "u1"

\* C20: while a document stays open its stored version never decreases.
VersionMonotone ==
    [][\A u \in Uris :
          (documents[u] # NoDocument /\ documents'[u] # NoDocument)
              => documents'[u].version >= documents[u].version]_vars

\* a step of StoreSpec in which the call recorded in returned' was made
Called(op) == returned'.op = op /\ <<returned, documents, diagnostics>>' # <<returned, documents, diagnostics>>

\* C21: change(uri, text, version) on an open URI returns true and replaces the text and
\* the version of that document; on a URI that is not open it returns false and leaves
\* the store as it was, no document created; no other URI's document and no cached
\* diagnostics are touched.
ChangeFrame ==
    [][Called("change") =>
          LET u == returned'.uri IN
          /\ returned'.value = (get(u) # NoDocument)
          /\ documents' = IF get(u) # NoDocument
                          THEN [documents EXCEPT ![u] = returned'.doc]
                          ELSE documents
          /\ diagnostics' = diagnostics]_vars

\* C21 witness: change was called for u1, which is not open, while u2 is open: it
\* returned false, and u1 is still not open.
ChangeFrameWitness ==
    /\ returned.op = "change"
    /\ returned.uri = "u1"
    /\ ~returned.value
    /\ get("u1") = NoDocument
    /\ get("u2") = Document("b", MaxVersion)

\* C22: close(uri) removes that URI's document and no other, returns whether it was
\* open, and get(uri) is none afterwards; neither close nor open touches the diagnostics
\* cache, so get_diagnostics gives what set_diagnostics stored across every sequence of
\* closes and re-opens.
CloseFrame ==
    [][/\ Called("close") =>
            LET u == returned'.uri IN
            /\ returned'.value = (get(u) # NoDocument)
            /\ documents' = [documents EXCEPT ![u] = NoDocument]
            /\ documents'[u] = NoDocument
       /\ (Called("close") \/ Called("open")) =>
            \A u \in Uris : get_diagnostics(u)' = get_diagnostics(u)]_vars

\* C22 witness: u1, which has cached diagnostics, was closed while open, with u2 open:
\* u1 is gone, u2 and the cached diagnostics are still there.
CloseFrameWitness ==
    /\ returned.op = "close"
    /\ returned.uri = "u1"
    /\ returned.value
    /\ get("u1") = NoDocument
    /\ get("u2") # NoDocument
    /\ get_diagnostics("u1") = Some(<<"e1">>)

\* C23: the diagnostics an analyze cycle published for a URI are the ones the
\* diagnostics cache holds for it.
AnalysisCached ==
    published.by = "analyze" => get_diagnostics(published.uri) = Some(published.diagnostics)

\* C24: didClose publishes no empty diagnostics list for the closed URI.
NoClearOnClose ==
    published.by = "did_close" => published.diagnostics # <<>>

\* line i of the output lies in a block: a START line precedes it with no END line between
InBlock(i) ==
    \E j \in 1..(i - 1) :
        /\ trim(output[j]) = START
        /\ \A k \in (j + 1)..(i - 1) : trim(output[k]) # END

\* the values of the lines 1..i that carry the tag and lie in a block, in line order
RECURSIVE BlockValues(_, _)
BlockValues(i, key) ==
    IF i = 0 THEN <<>>
    ELSE IF output[i].key = key /\ InBlock(i) THEN Append(BlockValues(i - 1, key), output[i].value)
    ELSE BlockValues(i - 1, key)

RECURSIVE Dedup(_)
Dedup(flags) ==
    IF flags = <<>> THEN <<>>
    ELSE LET front == Dedup(SubSeq(flags, 1, Len(flags) - 1)) IN
         IF Contains(front, flags[Len(flags)]) THEN front ELSE Append(front, flags[Len(flags)])

\* C26: the compiler flags of the parsed model are the flags of the build tool's blocks in
\* first-seen order, then the Config flags not yet present, each flag once.
MergedFlags ==
    model.parsed =>
        model.compiler_flags = Dedup(BlockValues(Len(output), "COMPILER_FLAG=") \o config)

\* the Content-Length headers of the stream; the one read last gives N
LengthHeaders == {i \in 1..Len(stream.headers) : stream.headers[i].name = "Content-Length: "}
LastLength == stream.headers[CHOOSE i \in LengthHeaders : \A j \in LengthHeaders : j <= i].n
Framed ==
    /\ stream.blank
    /\ LengthHeaders # {}
    /\ \A i \in LengthHeaders : stream.headers[i].valid

\* C27: read_message fails with MissingContentLength when the headers end without a
\* Content-Length header, with an invalid-content-length error when the value is no
\* non-negative integer, with JsonParse when the N body bytes are no valid JSON, with
\* UnexpectedEof when fewer than N bytes follow the headers; it reports a clean end of
\* stream only for a stream that ends before its first header byte.
FramingErrors ==
    message # NotRead =>
        /\ (stream.blank /\ LengthHeaders = {}) => message.t = "MissingContentLength"
        /\ (\E i \in LengthHeaders : ~stream.headers[i].valid) => message.t = "InvalidJsonRpc"
        /\ (Framed /\ Len(stream.body) >= LastLength
               /\ from_slice(SubSeq(stream.body, 1, LastLength)).t = "JsonParse")
              => message.t = "JsonParse"
        /\ (Framed /\ Len(stream.body) < LastLength) => message.t = "UnexpectedEof"
        /\ message.t = "Eof" => (stream.headers = <<>> /\ ~stream.blank)

\* C28: the health task creates a ping only at a tick at which it reads the state Ready;
\* a tick at which the state is anything else ends the task with nothing sent; and the
\* task does nothing but sleep before its grace period is over.
HealthPingsWhenReady ==
    [][\A i \in Insts :
          /\ (healthPc[i] # "sending" /\ healthPc'[i] = "sending")
                => (healthPc[i] = "select" /\ state = "Ready")
          /\ (healthPc[i] \notin {"none", "sending"} /\ healthCtr'[i] # healthCtr[i])
                => (healthPc[i] = "select" /\ state = "Ready")
          /\ (healthPc[i] = "select" /\ healthPc'[i] # "select" /\ state # "Ready")
                => /\ healthPc'[i] = "done"
                   /\ UNCHANGED <<pending, queue, healthCtr, state>>
          /\ (healthPc[i] = "sleep" /\ healthPc'[i] # "sleep")
                => /\ healthPc'[i] = "select"
                   /\ UNCHANGED <<pending, queue, healthCtr, state>>
          /\ (healthPc[i] # "sending" /\ healthPc'[i] = healthPc[i])
                => \A k \in 1..Len(queue'[i]) :
                       queue'[i][k].owner = PingOwner(i) => k <= Len(queue[i])]_vars

\* C28 witness: the health task has seen Ready at a tick and its ping is on its way,
\* while another tick of an earlier round found the state Ready as well (a second ping id).
HealthPingsWitness ==
    /\ healthPc[1] = "awaiting"
    /\ state = "Ready"
    /\ healthCtr[1] >= 3
    /\ \E k \in 1..Len(pending) : pending[k].owner = PingOwner(1) /\ pending[k].live

\* C29: once shutdown() has returned, a health task of the start() before it that is
\* still running creates no ping, sends none, and changes no state.
HealthQuietAfterShutdown ==
    [][\A i \in Insts :
          (shutdownDone /\ healthPc[i] \in {"sleep", "select", "sending", "awaiting"})
              => /\ healthCtr'[i] = healthCtr[i]
                 /\ healthPc'[i] # healthPc[i] => (state' = state /\ queue'[i] = queue[i])]_vars

\* what the sidecar can send: an answer to a message it has read, a message without id,
\* a message with an id that was used
SidecarMessages ==
    {Response(m, e) : m \in UNION {written[i] : i \in Insts}, e \in BOOLEAN}
        \cup {NoIdMessage} \cup {UnknownIdMessage(id) : id \in idsUsed}

\* a step in which no task but a reader task in its select! has moved: the only caller of
\* dispatch_response is the reader task (line 283)
ReaderOnly ==
    /\ readerPc' = readerPc /\ callerPc' = callerPc /\ healthPc' = healthPc
    /\ startPc' = startPc /\ shutPc' = shutPc
    /\ queue' = queue /\ writerAlive' = writerAlive
    /\ \E i \in Insts : readerPc[i] = "select"

\* C30: a message without id, or with an id no pending entry has, changes neither the
\* pending Vec nor any waiter's channel; a message whose id matches removes one entry
\* with that id and no other, and reaches the waiter of that entry and no other.
DispatchFrame ==
    [][ReaderOnly => \A r \in SidecarMessages :
          dispatch_response(r) =>
              IF r.id = 0 \/ ~(\E k \in 1..Len(pending) : pending[k].id = r.id)
              THEN pending' = pending /\ slot' = slot
              ELSE \E k \in 1..Len(pending) :
                       /\ pending[k].id = r.id
                       /\ Len(pending') = Len(pending) - 1
                       /\ pending' = RemoveAt(pending, k)
                       /\ \A o \in Owners \ {pending[k].owner} : slot'[o] = slot[o]
                       /\ pending[k].live => slot'[pending[k].owner] # None]_vars

\* C30 witness: the caller's request was answered while the ping of the health task was
\* pending too: the caller has its result, the ping's entry is still in the Vec.
DispatchFrameWitness ==
    /\ callerPc["c1"] = "awaiting"
    /\ slot[CallerOwner("c1")].t = "Ok"
    /\ Len(pending) = 1
    /\ pending[1].owner = PingOwner(1)
    /\ pending[1].live

\* C31 as stated: a response that matches a pending entry whose waiter still waits is
\* delivered as Err(MalformedResponse("<code>: <message>")) when it carries an error
\* object, with or without a result, and otherwise as Ok(result), Ok(null) without result.
ErrorResponseAsStated ==
    [][received' # received =>
          LET pos == Position(pending, received'.id) IN
          (pos # 0 /\ pending[pos].live) =>
              slot'[pending[pos].owner] =
                  IF received'.error.some
                  THEN MalformedResponse(received'.error.code \o ": " \o received'.error.message)
                  ELSE IF received'.result.some
                       THEN Ok(received'.result.who, received'.result.id)
                       ELSE Ok(NoOwner, 0)]_vars

\* C31 amended: the same, the message being "error <code>: <message>".
ErrorResponse ==
    [][received' # received =>
          LET pos == Position(pending, received'.id) IN
          (pos # 0 /\ pending[pos].live) =>
              slot'[pending[pos].owner] =
                  IF received'.error.some
                  THEN MalformedResponse("error " \o received'.error.code \o ": "
                                             \o received'.error.message)
                  ELSE IF received'.result.some
                       THEN Ok(received'.result.who, received'.result.id)
                       ELSE Ok(NoOwner, 0)]_vars

\* C31 witness: the last response read carried an error object and a result, and the
\* caller's request() has returned the error made of the error object.
ErrorResponseWitness ==
    /\ received.read
    /\ received.error = ResponseError("7", "m")
    /\ received.result.some
    /\ callerOp["c1"] = "request" /\ callerPc["c1"] = "idle"
    /\ result["c1"] = MalformedResponse("error 7: m")

RegisteredBeforeSent ==
    [][\A i \in Insts :
          Len(queue'[i]) > Len(queue[i])
              => LET m == queue'[i][Len(queue'[i])]
                 IN  (m.id # 0 /\ m.owner # ShutdownOwner)
                         => \/ \E k \in 1..Len(pending) :
                                   pending[k].id = m.id /\ pending[k].owner = m.owner
                            \/ slot[m.owner] # None]_vars

\* a request of c1, an initialize request or a ping is in a writer queue, its entry in
\* the pending Vec
RegisteredBeforeSentWitness ==
    \E i \in Insts :
        /\ queue[i] # <<>>
        /\ Head(queue[i]).owner = CallerOwner("c1")
        /\ \E k \in 1..Len(pending) :
               pending[k].id = Head(queue[i]).id /\ pending[k].owner = CallerOwner("c1")

(***************************************************************************)
(* C35: the value behind the state mutex and the value of the watch        *)
(* channel are equal in every state.                                       *)
(***************************************************************************)
StateIsWatch == state = watch

\* a caller was refused by wait_for_ready, which read the watch channel, after the
\* state had gone from Ready to Degraded
StateIsWatchWitness ==
    /\ state = "Degraded"
    /\ watch = "Degraded"
    /\ \E c \in Callers : callerPc[c] = "idle" /\ result[c] = NotReady

AgainstCurrent(e) ==
    /\ e.live
    /\ \/ e.owner = InitOwner /\ startPc \in {"sending", "awaiting"}
       \/ \E m \in written[cur] : m.id = e.id
       \/ \E n \in 1..Len(queue[cur]) : queue[cur][n].id = e.id

OldReaderIsolated ==
    [][\A i \in Insts :
          (i < cur /\ readerPc'[i] # readerPc[i])
              => /\ state' = state
                 /\ \A k \in 1..Len(pending) :
                        AgainstCurrent(pending[k])
                            => /\ \E j \in 1..Len(pending') : pending'[j] = pending[k]
                               /\ slot'[pending[k].owner] = slot[pending[k].owner]]_vars

(***************************************************************************)
(* C38: a shutdown() that finds the state Stopped returns at once: no      *)
(* notifier fires, no pending entry is cancelled, no id is taken, nothing  *)
(* is sent and the state stays Stopped.                                    *)
(***************************************************************************)
ShutdownWhenStopped ==
    [][(/\ shutPc = "idle"
        /\ state = "Stopped"
        /\ startPc' = startPc
        /\ <<shutPc, shutdownDone>>' # <<shutPc, shutdownDone>>)
           => /\ shutPc' = "idle"
              /\ shutdownDone'
              /\ UNCHANGED <<state, watch, readerNote, healthNote, readerPc, healthPc, pending,
                             slot, queue, writerAlive, request_id, shutId>>]_vars

\* shutdown() has returned on a bridge that is Stopped because initialize timed out:
\* the reader and the writer of the instance are still there
ShutdownWhenStoppedWitness ==
    /\ shutdownDone
    /\ state = "Stopped"
    /\ startResult = Timeout
    /\ \E i \in Insts : readerPc[i] = "select" /\ writerAlive[i]

(***************************************************************************)
(* C39: of hover, analyze_document, the shutdown handler and the debounce  *)
(* loop's cycle, at most one is inside a bridge call, and it is the task   *)
(* that holds the bridge mutex; a handler enters its call (the shutdown    *)
(* handler bridge.shutdown()) only from a state in which no call is in     *)
(* progress.                                                               *)
(***************************************************************************)
\* the server's tasks that are inside a call on the bridge
InCall == {h \in Handlers : handlerPc[h] = "calling"}
              \cup (IF loopPc = "analyze" THEN {"loop"} ELSE {})

OneBridgeCall ==
    /\ [](Cardinality(InCall) <= 1 /\ InCall = {mutex} \ {NoTask})
    /\ [][InCall' # InCall => (InCall = {} \/ InCall' = {})]_vars

\* hover is inside its request while the timer branch of the loop, which has taken a
\* URI of an open document, and the shutdown handler have not got the mutex
OneBridgeCallWitness ==
    /\ handlerPc["hover"] = "calling"
    /\ handlerPc["shutdown"] = "idle"
    /\ loopPc = "fired"
    /\ bridgeIs = "Ready"
    /\ documents[taken] # NoDocument

(***************************************************************************)
(* C40: a URI in the channel stays there, in its place, while a cycle is   *)
(* in flight; once the loop is back in its select! the URI at the head of  *)
(* the channel becomes the pending one; and a URI that is pending with     *)
(* the channel empty leads to the analyze request of a cycle for it,       *)
(* unless a new message arrives, the bridge is not Ready or the document   *)
(* is not open.                                                            *)
(***************************************************************************)
QueuedChangeAnalyzed ==
    /\ [][loopPc # "select" => \E k \in 0..1 : SubSeq(debounce_rx', 1, Len(debounce_rx') - k)
                                                  = debounce_rx]_vars
    /\ \A u \in Uris :
           (loopPc = "select" /\ debounce_rx # <<>> /\ Head(debounce_rx) = u)
               ~> (debPending = u)
    /\ \A u \in Uris :
           (loopPc = "select" /\ debounce_rx = <<>> /\ debPending = u)
               ~> \/ loopPc = "analyze" /\ taken = u
                  \/ debounce_rx # <<>>
                  \/ bridgeIs # "Ready"
                  \/ documents[u] = NoDocument
====
